---- MODULE Spec2Model ----
(***************************************************************************)
(* HanabiSync: the cue generator of src/src/hanabi.py (generate_cues with  *)
(* calculate_feature_profile and DynamicThresholds) as a state machine.    *)
(*                                                                         *)
(* Units.  Event times are integers counted in ticks, TicksPerMs ticks to  *)
(* the millisecond; a cue timestamp is round(event_time, 3), that is an    *)
(* integer number of milliseconds.  Feature samples are integers counted   *)
(* in units of the profiler's 1e-6, so that Epsilon is 1; percentile       *)
(* values are kept multiplied by PctScale so that the linear interpolation *)
(* of numpy.percentile stays within the integers, and every comparison     *)
(* sample > threshold is made as PctScale * sample > value.                *)
(***************************************************************************)
EXTENDS Integers, Sequences, FiniteSets, TLC

\* ----------------------------------------------------------------- bounds
MaxEvents == 2
MaxTime == 4
MaxSamples == 3
MaxLevel == 2

\* The visualizer: the clock runs to MaxClock milliseconds, and the record of
\* triggered cues holds at most MaxTriggered.
MaxClock == 4

MaxTriggered == 4

\* ------------------------------------------------------- model constants
TicksPerMs == 2
PctScale == 100
sr == 1
hop_length == 1
Epsilon == 1
NegInf == -1
Inf == -2

\* The envelopes a run may be given, per feature: an empty one, a falling one
\* of two hops, and one of five hops with five distinct levels.
RmsArrays == {<<>>, <<6, 2>>, <<10, 2, 8, 6, 4>>}
ScArrays == {<<>>, <<6, 2>>, <<2, 4, 6, 8, 10>>}
FluxArrays == {<<>>, <<6, 2, 2>>, <<2, 4, 6, 10, 8>>}
Times == 0 .. MaxTime
QuietChoices == {1, Inf}
SameGapChoices == {1, 2}
ParticleGapChoices == {0, 1, 2}

\* The arrays the profiler is tried on by itself: up to MaxSamples samples of
\* up to MaxLevel times 1e-6 in magnitude, so that samples below, at and above
\* 1e-6 and of either sign occur.
Levels == (0 - MaxLevel) .. MaxLevel

\* What the random source may deliver to uuid.uuid4() during one call.
UuidSeeds == {0, 1}

\* -------------------------------------------------- global configuration
FIREWORK_TYPES ==
    [mid_energy |-> "mid_burst", high_freq |-> "high_sparkle",
     strong_kick |-> "kick_boom", deep_bass |-> "bass_pulse",
     sharp_accent |-> "comet_tail"]

FireworkValues == {FIREWORK_TYPES[k] : k \in DOMAIN FIREWORK_TYPES}

PARTICLE_FIREWORK_TYPES ==
    {FIREWORK_TYPES["mid_energy"], FIREWORK_TYPES["high_freq"],
     FIREWORK_TYPES["strong_kick"], FIREWORK_TYPES["sharp_accent"]}

\* Python's order on the category strings (the second component of the
\* finalizer's sort key).
FireworkOrder ==
    [fw \in FireworkValues |->
        CASE fw = "bass_pulse" -> 1
          [] fw = "comet_tail" -> 2
          [] fw = "high_sparkle" -> 3
          [] fw = "kick_boom" -> 4
          [] fw = "mid_burst" -> 5]

KeyMap(bass, onset, beat, split, flux, sharp) ==
    [key_bass_sc |-> bass, key_onset_rms_general |-> onset, key_rms_beat |-> beat,
     key_sc_beat_split |-> split, key_flux_sharp |-> flux, key_rms_sharp |-> sharp]

\* The table with each profile's two key maps exchanged.
PROFILES_boost_exchanged ==
    [balanced |->
        [dynamic_threshold_keys |-> KeyMap("p45", "p40", "p50", "p60", "p75", "p70"),
         dynamic_threshold_keys_boost |-> KeyMap("p45", "p55", "p65", "p70", "p85", "p80")],
     noisy |->
        [dynamic_threshold_keys |-> KeyMap("p30", "p30", "p40", "p50", "p60", "p55"),
         dynamic_threshold_keys_boost |-> KeyMap("p35", "p40", "p50", "p60", "p70", "p65")],
     quiet |->
        [dynamic_threshold_keys |-> KeyMap("p50", "p60", "p65", "p70", "p80", "p75"),
         dynamic_threshold_keys_boost |-> KeyMap("p55", "p70", "p75", "p80", "p90", "p85")]]

PROFILES ==
    [balanced |->
        [dynamic_threshold_keys |-> KeyMap("p45", "p55", "p65", "p70", "p85", "p80"),
         dynamic_threshold_keys_boost |-> KeyMap("p45", "p40", "p50", "p60", "p75", "p70")],
     noisy |->
        [dynamic_threshold_keys |-> KeyMap("p35", "p40", "p50", "p60", "p70", "p65"),
         dynamic_threshold_keys_boost |-> KeyMap("p30", "p30", "p40", "p50", "p60", "p55")],
     quiet |->
        [dynamic_threshold_keys |-> KeyMap("p55", "p70", "p75", "p80", "p90", "p85"),
         dynamic_threshold_keys_boost |-> KeyMap("p50", "p60", "p65", "p70", "p80", "p75")]]

ProfileNames == {"balanced", "noisy", "quiet"}

\* ------------------------------------------------------ sequence helpers
SeqsUpTo(S, n) == UNION {[1 .. k -> S] : k \in 0 .. n}

IsNonDecreasing(s) == \A i \in 1 .. Len(s) - 1 : s[i] <= s[i + 1]

\* list.sort(key=...): a stable sort of s by the integer keys k, k[i] being the
\* key of s[i].  Element i lands after every element with a smaller key and
\* after every earlier element with an equal key.
SortedPosition(k, i) ==
    1 + Cardinality({j \in 1 .. Len(k) : k[j] < k[i] \/ (k[j] = k[i] /\ j < i)})

StableSortByKey(s, k) ==
    [p \in 1 .. Len(s) |-> s[CHOOSE i \in 1 .. Len(s) : SortedPosition(k, i) = p]]

\* ------------------------------------------------------- feature profiler
percentiles_to_define == {10, 25, 30, 35, 40, 45, 50, 55, 60, 65, 70, 75, 80, 85, 90, 95}

\* f'p{p_key_val}'
PKey ==
    (10 :> "p10") @@ (25 :> "p25") @@ (30 :> "p30") @@ (35 :> "p35") @@
    (40 :> "p40") @@ (45 :> "p45") @@ (50 :> "p50") @@ (55 :> "p55") @@
    (60 :> "p60") @@ (65 :> "p65") @@ (70 :> "p70") @@ (75 :> "p75") @@
    (80 :> "p80") @@ (85 :> "p85") @@ (90 :> "p90") @@ (95 :> "p95")

PKeys == {PKey[r] : r \in percentiles_to_define}

\* The rank a percentile key names.
RankOfKey ==
    ("p10" :> 10) @@ ("p25" :> 25) @@ ("p30" :> 30) @@ ("p35" :> 35) @@
    ("p40" :> 40) @@ ("p45" :> 45) @@ ("p50" :> 50) @@ ("p55" :> 55) @@
    ("p60" :> 60) @@ ("p65" :> 65) @@ ("p70" :> 70) @@ ("p75" :> 75) @@
    ("p80" :> 80) @@ ("p85" :> 85) @@ ("p90" :> 90) @@ ("p95" :> 95)

StatKeys == {"min", "max", "mean", "std", "count", "median"}

ProfileKeys == StatKeys \cup PKeys

SeqMin(v) == CHOOSE x \in {v[i] : i \in 1 .. Len(v)} : \A i \in 1 .. Len(v) : x <= v[i]

SeqMax(v) == CHOOSE x \in {v[i] : i \in 1 .. Len(v)} : \A i \in 1 .. Len(v) : x >= v[i]

RECURSIVE SeqSum(_)
SeqSum(v) == IF v = <<>> THEN 0 ELSE v[1] + SeqSum(Tail(v))

\* The k-th smallest sample (k = 1 .. Len(values)): the order statistic that
\* numpy.percentile interpolates between.
OrderStatistic(values, k) ==
    CHOOSE x \in {values[i] : i \in 1 .. Len(values)} :
        /\ Cardinality({i \in 1 .. Len(values) : values[i] < x}) < k
        /\ k <= Cardinality({i \in 1 .. Len(values) : values[i] <= x})

\* numpy.percentile(values, p), linear interpolation, times PctScale:
\* rank = p/100 * (n - 1), value = v[floor] + frac * (v[floor + 1] - v[floor]).
Percentile(values, p) ==
    LET rank == p * (Len(values) - 1)
        lo == rank \div PctScale
        frac == rank % PctScale
    IN  IF frac = 0 THEN PctScale * OrderStatistic(values, lo + 1)
        ELSE PctScale * OrderStatistic(values, lo + 1)
             + frac * (OrderStatistic(values, lo + 2) - OrderStatistic(values, lo + 1))

\* The default dictionary without the percentile keys.
get_default_profile_dict_stats_only == [k \in StatKeys |-> 0]

\* get_default_profile_dict(): every statistic 0.0, count 0.
get_default_profile_dict == [k \in ProfileKeys |-> 0]

\* The filter keeping every sample whose magnitude is at least 1e-6.
FilterNearZeroByMagnitude(feature_array) ==
    SelectSeq(feature_array, LAMBDA x : x >= Epsilon \/ 0 - x >= Epsilon)

\* feature_array.astype(float)[feature_array > 1e-6]
FilterNearZero(feature_array) == SelectSeq(feature_array, LAMBDA x : x > Epsilon)

\* The samples the statistics are computed over (lines 201-206).
ProfileValues(feature_array, filter_zeros) ==
    LET filtered == IF filter_zeros THEN FilterNearZero(feature_array) ELSE feature_array
    IN  IF filtered = <<>> /\ filter_zeros /\ Len(feature_array) > 0
        THEN feature_array ELSE filtered

\* The profile dictionary; min, max, median and the percentiles are held times
\* PctScale and count is the number of samples used.  So that they stay exact,
\* mean is held as the sum of the samples (mean times count) and std as
\* count * sum of squares - (sum)^2 (the square of count times std).
calculate_feature_profile(feature_array, filter_zeros) ==
    IF Len(feature_array) = 0 THEN get_default_profile_dict
    ELSE LET values == ProfileValues(feature_array, filter_zeros)
         IN  IF values = <<>> THEN get_default_profile_dict
             ELSE [k \in ProfileKeys |->
                    CASE k = "min" -> PctScale * SeqMin(values)
                      [] k = "max" -> PctScale * SeqMax(values)
                      [] k = "mean" -> SeqSum(values)
                      [] k = "std" ->
                            Len(values) * SeqSum([i \in 1 .. Len(values) |-> values[i] * values[i]])
                              - SeqSum(values) * SeqSum(values)
                      [] k = "count" -> Len(values)
                      [] k = "median" -> Percentile(values, 50)
                      [] OTHER -> Percentile(values, RankOfKey[k])]

\* ----------------------------------------------------- threshold resolver
\* The fallback key with the lower percentile preferred for every threshold.
DefaultKeyLowerForAll(profile, feature_type_for_fallback) ==
    IF "p25" \in DOMAIN profile THEN "p25" ELSE "p50"

\* Lines 237-239: the fallback key of get_profile_value.
DefaultKey(profile, feature_type_for_fallback) ==
    IF feature_type_for_fallback = "sc_bass" /\ "p25" \in DOMAIN profile
    THEN (IF "p25" \in DOMAIN profile THEN "p25"
          ELSE IF "p10" \in DOMAIN profile THEN "p10" ELSE "p50")
    ELSE "p50"

\* The resolver giving zero as soon as the fallback key is missing.
get_profile_value_zero_last(profile, key, feature_type_for_fallback) ==
    IF key \in DOMAIN profile THEN profile[key]
    ELSE LET chosen_key == DefaultKey(profile, feature_type_for_fallback)
         IN  IF chosen_key \in DOMAIN profile THEN profile[chosen_key] ELSE 0

\* get_profile_value(profile, key, feature_type_for_fallback): the value under
\* key, else under the fallback key, else profile.get('median', 0.0).
get_profile_value(profile, key, feature_type_for_fallback) ==
    IF key \in DOMAIN profile THEN profile[key]
    ELSE LET chosen_key == DefaultKey(profile, feature_type_for_fallback)
         IN  IF chosen_key \in DOMAIN profile THEN profile[chosen_key]
             ELSE IF "median" \in DOMAIN profile THEN profile["median"] ELSE 0

\* DynamicThresholds.__init__: the six thresholds of one key map.
DynamicThresholds(rms_profile, sc_profile, flux_profile, threshold_keys_config) ==
    [rms_trigger_threshold_beat |->
        get_profile_value(rms_profile, threshold_keys_config.key_rms_beat, "RMS"),
     sc_beat_split_thresh |->
        get_profile_value(sc_profile, threshold_keys_config.key_sc_beat_split, "SC"),
     bass_sc_thresh |->
        get_profile_value(sc_profile, threshold_keys_config.key_bass_sc, "sc_bass"),
     onset_rms_trigger_threshold |->
        get_profile_value(rms_profile, threshold_keys_config.key_onset_rms_general, "RMS"),
     flux_trigger_threshold |->
        get_profile_value(flux_profile, threshold_keys_config.key_flux_sharp, "Flux"),
     sharp_onset_rms_thresh |->
        get_profile_value(rms_profile, threshold_keys_config.key_rms_sharp, "RMS")]

\* ------------------------------------------------------------------ state
VARIABLES
    rms_frames, sc_frames, flux_frames,     \* features[...]: the three envelopes
    onset_times, beat_times,                \* features['onset_times'], ['beat_times']
    profile_name,                           \* which shipped key maps profile_settings holds
    allow_kick_with_others,                 \* cue_generation_logic_tweaks toggle
    quiet_duration_for_boost,               \* profile_settings['quiet_duration_for_boost']
    pc,                                     \* position in generate_cues
    rms_profile, sc_profile, flux_profile,  \* the three feature profiles
    combined_events, event_idx,             \* the merged events and the loop position
    time_of_last_generated_cue_overall,
    sensitivity_boost_active,
    current_thresholds,
    generated_types_this_event,
    potential_cues,
    deduplicated_cues, cue_idx,             \* the finalizer's input and loop position
    min_same_type_cooldown, min_any_particle_cooldown,
    last_cue_times_by_type, last_particle_cue_time,
    dropped_same_type, dropped_particle_proximity,
    final_cues,
    uuid_entropy,                           \* what uuid.uuid4() draws from in this call
    run, first_run_cues,                    \* which call this is, and what the first returned
    audio_file,                             \* HanabiGUI: whether self.audio_file is set
    cues, current_cue_index,                \* self.cues, self.current_cue_index (from 0)
    is_playing, start_time,                 \* self.is_playing, self.start_time
    fireworks,                              \* self.fireworks, the active fireworks
    triggered,                              \* the cues passed to trigger_firework since
                                            \* playback was last started or stopped
    clock,                                  \* what time.time() returns, in milliseconds
    canvas_ready,                           \* the canvas is wider and higher than 1 pixel
    canvas_items                            \* the fireworks drawn on the canvas (tag "firework")

inputVars == <<rms_frames, sc_frames, flux_frames, onset_times, beat_times,
               profile_name, allow_kick_with_others, quiet_duration_for_boost>>

profileVars == <<rms_profile, sc_profile, flux_profile>>

scanVars == <<combined_events, event_idx, time_of_last_generated_cue_overall,
              sensitivity_boost_active, current_thresholds,
              generated_types_this_event, potential_cues>>

limitVars == <<deduplicated_cues, cue_idx, min_same_type_cooldown,
               min_any_particle_cooldown, last_cue_times_by_type,
               last_particle_cue_time, dropped_same_type,
               dropped_particle_proximity, final_cues>>

callVars == <<uuid_entropy, run, first_run_cues>>

guiVars == <<audio_file, cues, current_cue_index, is_playing, start_time, fireworks,
             triggered, clock, canvas_ready, canvas_items>>

vars == <<inputVars, pc, profileVars, scanVars, limitVars, callVars, guiVars>>

\* self.start_time = None.  time.time() is never 0, and the test
\* "self.is_playing and self.start_time" takes None and 0 alike.
NoStartTime == 0

\* HanabiGUI.__init__: the fields of a visualizer that has loaded nothing.
GuiConstructed ==
    /\ audio_file = FALSE
    /\ cues = <<>>
    /\ current_cue_index = 0
    /\ is_playing = FALSE
    /\ start_time = NoStartTime
    /\ fireworks = <<>>
    /\ triggered = <<>>
    /\ clock = 1
    /\ canvas_ready = FALSE
    /\ canvas_items = <<>>

NormalThresholds ==
    DynamicThresholds(rms_profile, sc_profile, flux_profile,
                      PROFILES[profile_name].dynamic_threshold_keys)

BoostThresholds ==
    DynamicThresholds(rms_profile, sc_profile, flux_profile,
                      PROFILES[profile_name].dynamic_threshold_keys_boost)

\* A local that has not been assigned yet.
Unset == [rms_trigger_threshold_beat |-> 0, sc_beat_split_thresh |-> 0,
          bass_sc_thresh |-> 0, onset_rms_trigger_threshold |-> 0,
          flux_trigger_threshold |-> 0, sharp_onset_rms_thresh |-> 0]

\* --------------------------------------------------------- pure fragments
\* round(timestamp, 3): ticks to whole milliseconds, ties to the even one.
Round3(t) ==
    LET q == t \div TicksPerMs
        r == t % TicksPerMs
    IN  IF 2 * r < TicksPerMs THEN q
        ELSE IF 2 * r > TicksPerMs THEN q + 1
        ELSE IF q % 2 = 0 THEN q ELSE q + 1

\* librosa.time_to_frames(event_time, sr, hop_length)
TimeToFrames(event_time) == (event_time * sr) \div hop_length

\* The emptiness test with the flux array left out.
AllFeaturesPresentButFlux(rms, sc, flux) == Len(rms) > 0 /\ Len(sc) > 0

\* Line 265: all(arr.size > 0 for arr in [rms_frames, sc_frames, flux_frames])
AllFeaturesPresent(rms, sc, flux) == Len(rms) > 0 /\ Len(sc) > 0 /\ Len(flux) > 0

\* The merge with the beats appended before the onsets.
CombinedEventsBeatsFirst(onsets, beats) ==
    LET all == [i \in 1 .. Len(beats) |-> [time |-> beats[i], type |-> "beat"]]
               \o [i \in 1 .. Len(onsets) |-> [time |-> onsets[i], type |-> "onset"]]
    IN  StableSortByKey(all, [i \in 1 .. Len(all) |-> all[i].time])

\* Lines 273-276: onsets then beats, then a stable sort on the time.
CombinedEvents(onsets, beats) ==
    LET all == [i \in 1 .. Len(onsets) |-> [time |-> onsets[i], type |-> "onset"]]
               \o [i \in 1 .. Len(beats) |-> [time |-> beats[i], type |-> "beat"]]
    IN  StableSortByKey(all, [i \in 1 .. Len(all) |-> all[i].time])

\* The quiet-gap test with >= in place of >.
QuietGapReached(event_time, last, quiet) ==
    /\ quiet # Inf
    /\ last = NegInf \/ event_time - TicksPerMs * last >= TicksPerMs * quiet

\* The quiet-gap test with minus infinity read as time zero.
QuietGapExceededFromZero(event_time, last, quiet) ==
    /\ quiet # Inf
    /\ event_time - TicksPerMs * (IF last = NegInf THEN 0 ELSE last) > TicksPerMs * quiet

\* Line 308: event_time - time_of_last_generated_cue_overall > quiet_duration_for_boost
\* in float arithmetic (event_time in ticks, the other two in milliseconds).
QuietGapExceeded(event_time, last, quiet) ==
    /\ quiet # Inf
    /\ last = NegInf \/ event_time - TicksPerMs * last > TicksPerMs * quiet

\* The switch taken whenever the boost is off, whatever the gap.
BoostTriggersWithoutGap(active, event_time, last, quiet) == ~active /\ quiet # Inf

\* Lines 308-309: whether this event switches the boost on.
BoostTriggers(active, event_time, last, quiet) ==
    ~active /\ QuietGapExceeded(event_time, last, quiet) /\ quiet # Inf

\* Lines 322-323: the hop index lies within every array the event reads.
FrameInRange(frame_idx, event_type, rms, sc, flux) ==
    /\ 0 <= frame_idx /\ frame_idx < Len(rms)
    /\ 0 <= frame_idx /\ frame_idx < Len(sc)
    /\ event_type # "onset" \/ (0 <= frame_idx /\ frame_idx < Len(flux))

\* Line 332.
BassRule(rms, sc, th) ==
    PctScale * rms > th.onset_rms_trigger_threshold /\ PctScale * sc < th.bass_sc_thresh

\* Line 335.
SharpRule(rms, flux, th) ==
    PctScale * rms > th.sharp_onset_rms_thresh /\ PctScale * flux > th.flux_trigger_threshold

\* Line 339.
KickLoudness(rms, th) == PctScale * rms > th.onset_rms_trigger_threshold

\* The kick guard looking for a deep-bass candidate only.
CanTriggerKickBassOnly(allow, generated) ==
    IF allow THEN TRUE
    ELSE ~\E i \in 1 .. Len(generated) : generated[i] = FIREWORK_TYPES["deep_bass"]

\* Lines 340-345.
CanTriggerKick(allow, generated) ==
    IF allow THEN TRUE
    ELSE ~\E i \in 1 .. Len(generated) :
            generated[i] \in {FIREWORK_TYPES["deep_bass"], FIREWORK_TYPES["sharp_accent"]}

\* The onset rules with the sharp-accent rule tried only when the deep-bass
\* rule did not fire.
OnsetTypesExclusive(rms, sc, flux, th, allow) ==
    LET g1 == IF BassRule(rms, sc, th) THEN <<FIREWORK_TYPES["deep_bass"]>> ELSE <<>>
        g2 == IF g1 = <<>> /\ SharpRule(rms, flux, th)
              THEN Append(g1, FIREWORK_TYPES["sharp_accent"]) ELSE g1
    IN  IF KickLoudness(rms, th) /\ CanTriggerKick(allow, g2)
        THEN Append(g2, FIREWORK_TYPES["strong_kick"]) ELSE g2

\* Lines 330-348: the categories an onset emits, in order of emission.
OnsetTypes(rms, sc, flux, th, allow) ==
    LET g1 == IF BassRule(rms, sc, th) THEN <<FIREWORK_TYPES["deep_bass"]>> ELSE <<>>
        g2 == IF SharpRule(rms, flux, th)
              THEN Append(g1, FIREWORK_TYPES["sharp_accent"]) ELSE g1
    IN  IF KickLoudness(rms, th) /\ CanTriggerKick(allow, g2)
        THEN Append(g2, FIREWORK_TYPES["strong_kick"]) ELSE g2

\* The beat rule with >= in place of > on the loudness.
BeatTypesNonStrict(rms, sc, th) ==
    IF PctScale * rms >= th.rms_trigger_threshold_beat
    THEN <<IF PctScale * sc > th.sc_beat_split_thresh
           THEN FIREWORK_TYPES["high_freq"] ELSE FIREWORK_TYPES["mid_energy"]>>
    ELSE <<>>

\* Lines 350-354: the category a beat emits, if any.
BeatTypes(rms, sc, th) ==
    IF PctScale * rms > th.rms_trigger_threshold_beat
    THEN <<IF PctScale * sc > th.sc_beat_split_thresh
           THEN FIREWORK_TYPES["high_freq"] ELSE FIREWORK_TYPES["mid_energy"]>>
    ELSE <<>>

\* The source_description passed with each category.
SourceOf(fw) ==
    CASE fw = FIREWORK_TYPES["deep_bass"] -> "onset_bass"
      [] fw = FIREWORK_TYPES["sharp_accent"] -> "onset_flux"
      [] fw = FIREWORK_TYPES["strong_kick"] -> "onset_kick"
      [] OTHER -> "beat"

\* str(uuid.uuid4()) for the n-th cue of a call: a value no other cue of the
\* call has, fixed by what the random source delivers.
Uuid4(n) == <<uuid_entropy, n>>

\* _add_potential_cue, once per emitted category.
NewCues(event_time, types) ==
    [i \in 1 .. Len(types) |->
        [id |-> Uuid4(Len(potential_cues) + i),
         timestamp |-> Round3(event_time), firework |-> types[i],
         source |-> SourceOf(types[i])]]

\* The sort key with its two components swapped: (firework, timestamp).
CueSortKeySwapped(cue) ==
    FireworkOrder[cue.firework] * (Round3(MaxTime) + 1) + cue.timestamp

\* Line 365: the sort key (timestamp, firework) as one integer.
CueSortKey(cue) ==
    cue.timestamp * (Cardinality(FireworkValues) + 1) + FireworkOrder[cue.firework]

SortCues(cue_list) ==
    StableSortByKey(cue_list, [i \in 1 .. Len(cue_list) |-> CueSortKey(cue_list[i])])

\* The repeat test on the timestamp alone.
SameTimestampAsPrevious(cue_list, i) == cue_list[i].timestamp = cue_list[i - 1].timestamp

\* Lines 371-372: cue i repeats its predecessor.
SameAsPrevious(cue_list, i) ==
    /\ cue_list[i].timestamp = cue_list[i - 1].timestamp
    /\ cue_list[i].firework = cue_list[i - 1].firework

\* Lines 367-373.
Deduplicate(cue_list) ==
    SelectSeq([i \in 1 .. Len(cue_list) |-> [idx |-> i, cue |-> cue_list[i]]],
              LAMBDA e : e.idx = 1 \/ ~SameAsPrevious(cue_list, e.idx))

DeduplicatedCues(cue_list) ==
    LET d == Deduplicate(SortCues(cue_list)) IN [i \in 1 .. Len(d) |-> d[i].cue]

\* The same-category test that never drops.
SameTypeNeverTooClose(ts, last, cooldown) == FALSE

\* The same-category test one millisecond short.
SameTypeTooCloseShort(ts, last, cooldown) == last # NegInf /\ ts - last < cooldown - 1

\* The same-category test with <= in place of <.
SameTypeTooCloseInclusive(ts, last, cooldown) == last # NegInf /\ ts - last <= cooldown

\* Line 386: ts - last_cue_times_by_type[fw_type] < min_same_type_cooldown
SameTypeTooClose(ts, last, cooldown) == last # NegInf /\ ts - last < cooldown

\* The particle class taken to be the three onset-driven categories.
IsParticleOnsetDriven(fw_type) ==
    fw_type \in {FIREWORK_TYPES["deep_bass"], FIREWORK_TYPES["sharp_accent"],
                 FIREWORK_TYPES["strong_kick"]}

\* The particle class without the kick.
IsParticleWithoutKick(fw_type) ==
    fw_type \in PARTICLE_FIREWORK_TYPES \ {FIREWORK_TYPES["strong_kick"]}

\* Line 387.
IsParticle(fw_type) == fw_type \in PARTICLE_FIREWORK_TYPES

\* The particle test with simultaneous cues let through.
ParticleTooCloseUnlessSimultaneous(ts, last, cooldown) ==
    last # NegInf /\ ts - last < cooldown /\ ts # last

\* The particle test one millisecond short.
ParticleTooCloseShort(ts, last, cooldown) == last # NegInf /\ ts - last < cooldown - 1

\* Line 388: ts - last_particle_cue_time < min_any_particle_cooldown
ParticleTooClose(ts, last, cooldown) == last # NegInf /\ ts - last < cooldown

\* ---------------------------------------------------------------- actions
\* The call generate_cues(sr, features, hop_length, profile_settings): the
\* arguments are given, potential_cues is empty, no other local is assigned.
Init ==
    /\ rms_frames \in RmsArrays
    /\ sc_frames \in ScArrays
    /\ flux_frames \in FluxArrays
    /\ onset_times \in {s \in SeqsUpTo(Times, MaxEvents) : IsNonDecreasing(s)}
    /\ beat_times \in {s \in SeqsUpTo(Times, MaxEvents) : IsNonDecreasing(s)}
    /\ Len(onset_times) + Len(beat_times) <= MaxEvents
    /\ profile_name \in ProfileNames
    /\ allow_kick_with_others \in BOOLEAN
    /\ quiet_duration_for_boost \in QuietChoices
    /\ pc = "start"
    /\ rms_profile = get_default_profile_dict
    /\ sc_profile = get_default_profile_dict
    /\ flux_profile = get_default_profile_dict
    /\ combined_events = <<>>
    /\ event_idx = 1
    /\ time_of_last_generated_cue_overall = NegInf
    /\ sensitivity_boost_active = FALSE
    /\ current_thresholds = Unset
    /\ generated_types_this_event = <<>>
    /\ potential_cues = <<>>
    /\ deduplicated_cues = <<>>
    /\ cue_idx = 1
    /\ min_same_type_cooldown = 0
    /\ min_any_particle_cooldown = 0
    /\ last_cue_times_by_type = [fw \in FireworkValues |-> NegInf]
    /\ last_particle_cue_time = NegInf
    /\ dropped_same_type = 0
    /\ dropped_particle_proximity = 0
    /\ final_cues = <<>>
    /\ uuid_entropy \in UuidSeeds
    /\ run = 1
    /\ first_run_cues = <<>>
    /\ GuiConstructed

\* Lines 265-267: an empty feature array ends the call with no cue.
ReturnEmpty ==
    /\ pc = "start"
    /\ ~AllFeaturesPresent(rms_frames, sc_frames, flux_frames)
    /\ final_cues' = <<>>
    /\ pc' = "done"
    /\ UNCHANGED <<guiVars, inputVars, callVars, profileVars, scanVars, deduplicated_cues, cue_idx,
                   min_same_type_cooldown, min_any_particle_cooldown,
                   last_cue_times_by_type, last_particle_cue_time,
                   dropped_same_type, dropped_particle_proximity>>

\* Lines 269-294: profiles, merged events, scan state, normal thresholds.
Prepare ==
    /\ pc = "start"
    /\ AllFeaturesPresent(rms_frames, sc_frames, flux_frames)
    /\ rms_profile' = calculate_feature_profile(rms_frames, TRUE)
    /\ sc_profile' = calculate_feature_profile(sc_frames, TRUE)
    /\ flux_profile' = calculate_feature_profile(flux_frames, FALSE)
    /\ combined_events' = CombinedEvents(onset_times, beat_times)
    /\ event_idx' = 1
    /\ time_of_last_generated_cue_overall' = NegInf
    /\ sensitivity_boost_active' = FALSE
    /\ current_thresholds' =
          DynamicThresholds(rms_profile', sc_profile', flux_profile',
                            PROFILES[profile_name].dynamic_threshold_keys)
    /\ pc' = IF combined_events' = <<>> THEN "finalize" ELSE "boost_check"
    /\ UNCHANGED <<guiVars, inputVars, callVars, generated_types_this_event, potential_cues, limitVars>>

\* Lines 304-319: take the next event and, after a quiet gap, switch to the
\* boosted thresholds.
BoostCheck ==
    /\ pc = "boost_check"
    /\ LET event_time == combined_events[event_idx].time
       IN  IF BoostTriggers(sensitivity_boost_active, event_time,
                            time_of_last_generated_cue_overall, quiet_duration_for_boost)
           THEN /\ sensitivity_boost_active' = TRUE
                /\ current_thresholds' = BoostThresholds
           ELSE UNCHANGED <<sensitivity_boost_active, current_thresholds>>
    /\ pc' = "classify"
    /\ UNCHANGED <<guiVars, inputVars, callVars, profileVars, combined_events, event_idx,
                   time_of_last_generated_cue_overall, generated_types_this_event,
                   potential_cues, limitVars>>

\* The loop's next position after the event at event_idx.
NextEventPc == IF event_idx = Len(combined_events) THEN "finalize" ELSE "boost_check"

\* Lines 321-324: the hop index is out of range, continue.
SkipEvent ==
    /\ pc = "classify"
    /\ LET e == combined_events[event_idx]
       IN  ~FrameInRange(TimeToFrames(e.time), e.type, rms_frames, sc_frames, flux_frames)
    /\ event_idx' = event_idx + 1
    /\ pc' = NextEventPc
    /\ UNCHANGED <<guiVars, inputVars, callVars, profileVars, combined_events, time_of_last_generated_cue_overall,
                   sensitivity_boost_active, current_thresholds,
                   generated_types_this_event, potential_cues, limitVars>>

\* The end of an event that never leaves the boost.
AfterEventStayBoosted(event_time, types) ==
    /\ generated_types_this_event' = types
    /\ potential_cues' = potential_cues \o NewCues(event_time, types)
    /\ IF types # <<>>
       THEN time_of_last_generated_cue_overall' = Round3(event_time)
       ELSE UNCHANGED time_of_last_generated_cue_overall
    /\ UNCHANGED <<sensitivity_boost_active, current_thresholds>>

\* The end of an event that notes the event's time whether or not it emitted.
AfterEventAlwaysNotes(event_time, types) ==
    /\ generated_types_this_event' = types
    /\ potential_cues' = potential_cues \o NewCues(event_time, types)
    /\ time_of_last_generated_cue_overall' = Round3(event_time)
    /\ IF types # <<>> /\ sensitivity_boost_active
       THEN /\ sensitivity_boost_active' = FALSE
            /\ current_thresholds' = NormalThresholds
       ELSE UNCHANGED <<sensitivity_boost_active, current_thresholds>>

\* Lines 356-362: after an event that emitted, note its time and leave the boost.
AfterEvent(event_time, types) ==
    /\ generated_types_this_event' = types
    /\ potential_cues' = potential_cues \o NewCues(event_time, types)
    /\ IF types # <<>>
       THEN /\ time_of_last_generated_cue_overall' = Round3(event_time)
            /\ IF sensitivity_boost_active
               THEN /\ sensitivity_boost_active' = FALSE
                    /\ current_thresholds' = NormalThresholds
               ELSE UNCHANGED <<sensitivity_boost_active, current_thresholds>>
       ELSE UNCHANGED <<time_of_last_generated_cue_overall, sensitivity_boost_active,
                        current_thresholds>>

\* Lines 326-348 and 356-362: an in-range onset.
ClassifyOnset ==
    /\ pc = "classify"
    /\ LET e == combined_events[event_idx]
           frame_idx == TimeToFrames(e.time)
       IN  /\ e.type = "onset"
           /\ FrameInRange(frame_idx, e.type, rms_frames, sc_frames, flux_frames)
           /\ AfterEvent(e.time,
                         OnsetTypes(rms_frames[frame_idx + 1], sc_frames[frame_idx + 1],
                                    flux_frames[frame_idx + 1], current_thresholds,
                                    allow_kick_with_others))
    /\ event_idx' = event_idx + 1
    /\ pc' = NextEventPc
    /\ UNCHANGED <<guiVars, inputVars, callVars, profileVars, combined_events, limitVars>>

\* Lines 326-328 and 350-362: an in-range beat.
ClassifyBeat ==
    /\ pc = "classify"
    /\ LET e == combined_events[event_idx]
           frame_idx == TimeToFrames(e.time)
       IN  /\ e.type = "beat"
           /\ FrameInRange(frame_idx, e.type, rms_frames, sc_frames, flux_frames)
           /\ AfterEvent(e.time,
                         BeatTypes(rms_frames[frame_idx + 1], sc_frames[frame_idx + 1],
                                   current_thresholds))
    /\ event_idx' = event_idx + 1
    /\ pc' = NextEventPc
    /\ UNCHANGED <<guiVars, inputVars, callVars, profileVars, combined_events, limitVars>>

\* The values profile_settings may hold under a cooldown key: any of the
\* choices in a first call, and in a second call, which is given the same
\* profile_settings, the value the first call read.
CooldownSetting(choices, read_before) == IF run = 1 THEN choices ELSE {read_before}

\* The finalizer with last_particle_cue_time left as the previous call left it.
FinalizeKeepingParticleTime ==
    /\ pc = "finalize"
    /\ potential_cues' = SortCues(potential_cues)
    /\ deduplicated_cues' = DeduplicatedCues(potential_cues)
    /\ cue_idx' = 1
    /\ final_cues' = <<>>
    /\ last_cue_times_by_type' = [fw \in FireworkValues |-> NegInf]
    /\ min_same_type_cooldown' \in CooldownSetting(SameGapChoices, min_same_type_cooldown)
    /\ min_any_particle_cooldown' \in
          CooldownSetting(ParticleGapChoices, min_any_particle_cooldown)
    /\ dropped_same_type' = 0
    /\ dropped_particle_proximity' = 0
    /\ pc' = IF deduplicated_cues' = <<>> THEN "done" ELSE "limit"
    /\ UNCHANGED <<guiVars, inputVars, callVars, profileVars, combined_events, event_idx,
                   time_of_last_generated_cue_overall, sensitivity_boost_active,
                   current_thresholds, generated_types_this_event,
                   last_particle_cue_time>>

\* Lines 365-382: sort in place, drop repeats, reset the limiters, read the
\* cooldowns of profile_settings.
Finalize ==
    /\ pc = "finalize"
    /\ potential_cues' = SortCues(potential_cues)
    /\ deduplicated_cues' = DeduplicatedCues(potential_cues)
    /\ cue_idx' = 1
    /\ final_cues' = <<>>
    /\ last_cue_times_by_type' = [fw \in FireworkValues |-> NegInf]
    /\ last_particle_cue_time' = NegInf
    /\ min_same_type_cooldown' \in CooldownSetting(SameGapChoices, min_same_type_cooldown)
    /\ min_any_particle_cooldown' \in
          CooldownSetting(ParticleGapChoices, min_any_particle_cooldown)
    /\ dropped_same_type' = 0
    /\ dropped_particle_proximity' = 0
    /\ pc' = IF deduplicated_cues' = <<>> THEN "done" ELSE "limit"
    /\ UNCHANGED <<guiVars, inputVars, callVars, profileVars, combined_events, event_idx,
                   time_of_last_generated_cue_overall, sensitivity_boost_active,
                   current_thresholds, generated_types_this_event>>

\* The loop's next position after the cue at cue_idx (lines 393-396 return).
NextCuePc == IF cue_idx = Len(deduplicated_cues) THEN "done" ELSE "limit"

\* Line 386: too close to the last kept cue of its category.
DropSameType ==
    /\ pc = "limit"
    /\ LET cue == deduplicated_cues[cue_idx]
       IN  SameTypeTooClose(cue.timestamp, last_cue_times_by_type[cue.firework],
                            min_same_type_cooldown)
    /\ dropped_same_type' = dropped_same_type + 1
    /\ cue_idx' = cue_idx + 1
    /\ pc' = NextCuePc
    /\ UNCHANGED <<guiVars, inputVars, callVars, profileVars, scanVars, deduplicated_cues, min_same_type_cooldown,
                   min_any_particle_cooldown, last_cue_times_by_type,
                   last_particle_cue_time, dropped_particle_proximity, final_cues>>

\* The particle drop that still notes the cue's time for its category.
DropParticleNotingTime ==
    /\ pc = "limit"
    /\ LET cue == deduplicated_cues[cue_idx]
       IN  /\ ~SameTypeTooClose(cue.timestamp, last_cue_times_by_type[cue.firework],
                                min_same_type_cooldown)
           /\ IsParticle(cue.firework)
           /\ ParticleTooClose(cue.timestamp, last_particle_cue_time,
                               min_any_particle_cooldown)
           /\ last_cue_times_by_type' =
                 [last_cue_times_by_type EXCEPT ![cue.firework] = cue.timestamp]
    /\ dropped_particle_proximity' = dropped_particle_proximity + 1
    /\ cue_idx' = cue_idx + 1
    /\ pc' = NextCuePc
    /\ UNCHANGED <<guiVars, inputVars, callVars, profileVars, scanVars, deduplicated_cues, min_same_type_cooldown,
                   min_any_particle_cooldown,
                   last_particle_cue_time, dropped_same_type, final_cues>>

\* Lines 387-388: a particle cue too close to the last kept particle cue.
DropParticle ==
    /\ pc = "limit"
    /\ LET cue == deduplicated_cues[cue_idx]
       IN  /\ ~SameTypeTooClose(cue.timestamp, last_cue_times_by_type[cue.firework],
                                min_same_type_cooldown)
           /\ IsParticle(cue.firework)
           /\ ParticleTooClose(cue.timestamp, last_particle_cue_time,
                               min_any_particle_cooldown)
    /\ dropped_particle_proximity' = dropped_particle_proximity + 1
    /\ cue_idx' = cue_idx + 1
    /\ pc' = NextCuePc
    /\ UNCHANGED <<guiVars, inputVars, callVars, profileVars, scanVars, deduplicated_cues, min_same_type_cooldown,
                   min_any_particle_cooldown, last_cue_times_by_type,
                   last_particle_cue_time, dropped_same_type, final_cues>>

\* The kept cue put in front of the final list.
KeepCueInFront ==
    /\ pc = "limit"
    /\ LET cue == deduplicated_cues[cue_idx]
       IN  /\ ~SameTypeTooClose(cue.timestamp, last_cue_times_by_type[cue.firework],
                                min_same_type_cooldown)
           /\ IF IsParticle(cue.firework)
              THEN /\ ~ParticleTooClose(cue.timestamp, last_particle_cue_time,
                                        min_any_particle_cooldown)
                   /\ last_particle_cue_time' = cue.timestamp
              ELSE UNCHANGED last_particle_cue_time
           /\ final_cues' = <<cue>> \o final_cues
           /\ last_cue_times_by_type' =
                 [last_cue_times_by_type EXCEPT ![cue.firework] = cue.timestamp]
    /\ cue_idx' = cue_idx + 1
    /\ pc' = NextCuePc
    /\ UNCHANGED <<guiVars, inputVars, callVars, profileVars, scanVars, deduplicated_cues, min_same_type_cooldown,
                   min_any_particle_cooldown, dropped_same_type,
                   dropped_particle_proximity>>

\* Lines 389-391: the cue is kept.
KeepCue ==
    /\ pc = "limit"
    /\ LET cue == deduplicated_cues[cue_idx]
       IN  /\ ~SameTypeTooClose(cue.timestamp, last_cue_times_by_type[cue.firework],
                                min_same_type_cooldown)
           /\ IF IsParticle(cue.firework)
              THEN /\ ~ParticleTooClose(cue.timestamp, last_particle_cue_time,
                                        min_any_particle_cooldown)
                   /\ last_particle_cue_time' = cue.timestamp
              ELSE UNCHANGED last_particle_cue_time
           /\ final_cues' = Append(final_cues, cue)
           /\ last_cue_times_by_type' =
                 [last_cue_times_by_type EXCEPT ![cue.firework] = cue.timestamp]
    /\ cue_idx' = cue_idx + 1
    /\ pc' = NextCuePc
    /\ UNCHANGED <<guiVars, inputVars, callVars, profileVars, scanVars, deduplicated_cues, min_same_type_cooldown,
                   min_any_particle_cooldown, dropped_same_type,
                   dropped_particle_proximity>>

Next ==
    \/ ReturnEmpty
    \/ Prepare
    \/ BoostCheck
    \/ SkipEvent
    \/ ClassifyOnset
    \/ ClassifyBeat
    \/ Finalize
    \/ DropSameType
    \/ DropParticle
    \/ KeepCue

Spec == Init /\ [][Next]_vars

\* ------------------------------------------- two calls on the same inputs
\* A first call has returned; generate_cues is called again with the same
\* arguments.  Line 259 empties potential_cues; no other local exists yet, and
\* each keeps here whatever the first call left in it until the second call
\* assigns it.  The random source delivers what it will.
RunAgain ==
    /\ pc = "done"
    /\ run = 1
    /\ run' = 2
    /\ first_run_cues' = final_cues
    /\ uuid_entropy' \in UuidSeeds
    /\ potential_cues' = <<>>
    /\ pc' = "start"
    /\ UNCHANGED <<guiVars, inputVars, profileVars, combined_events, event_idx,
                   time_of_last_generated_cue_overall, sensitivity_boost_active,
                   current_thresholds, generated_types_this_event, limitVars>>

\* The inputs of the two calls: the noisy profile with the boost switched off.
TwoRunsInit ==
    /\ Init
    /\ profile_name = "noisy"
    /\ quiet_duration_for_boost = Inf

TwoRunsNext ==
    \/ Next
    \/ RunAgain

SpecTwoRuns == TwoRunsInit /\ [][TwoRunsNext]_vars

\* --------------------------------------- the threshold resolver on its own
\* DynamicThresholds takes any three dictionaries.  The dictionaries tried
\* here are a computed profile cut down to a subset of its keys: any subset
\* of the keys the fallback chain looks at, with or without all other keys.
FullProfile == calculate_feature_profile(<<2, 4, 6, 8, 10>>, TRUE)

FallbackKeys == {"p10", "p25", "p50", "median"}

Restrict(profile, keys) == [k \in keys |-> profile[k]]

PartialProfiles(fallback_keys) ==
    {Restrict(FullProfile, F \cup O) :
        F \in SUBSET fallback_keys, O \in {{}, ProfileKeys \ FallbackKeys}}

\* The call DynamicThresholds(rms_profile, sc_profile, flux_profile, keys) is
\* about to be made with the normal key map of a shipped profile.
ResolverInit ==
    /\ rms_profile \in PartialProfiles({"p25", "p50", "median"})
    /\ sc_profile \in PartialProfiles(FallbackKeys)
    /\ flux_profile \in PartialProfiles({"p25", "p50", "median"})
    /\ profile_name \in ProfileNames
    /\ pc = "resolve"
    /\ current_thresholds = Unset
    /\ sensitivity_boost_active = FALSE
    /\ rms_frames = <<>> /\ sc_frames = <<>> /\ flux_frames = <<>>
    /\ onset_times = <<>> /\ beat_times = <<>>
    /\ allow_kick_with_others = FALSE
    /\ quiet_duration_for_boost = Inf
    /\ combined_events = <<>>
    /\ event_idx = 1
    /\ time_of_last_generated_cue_overall = NegInf
    /\ generated_types_this_event = <<>>
    /\ potential_cues = <<>>
    /\ deduplicated_cues = <<>>
    /\ cue_idx = 1
    /\ min_same_type_cooldown = 0
    /\ min_any_particle_cooldown = 0
    /\ last_cue_times_by_type = [fw \in FireworkValues |-> NegInf]
    /\ last_particle_cue_time = NegInf
    /\ dropped_same_type = 0
    /\ dropped_particle_proximity = 0
    /\ final_cues = <<>>
    /\ uuid_entropy = 0
    /\ run = 1
    /\ first_run_cues = <<>>
    /\ GuiConstructed

\* Lines 281-282: the thresholds of the normal key map.
ResolveNormal ==
    /\ pc = "resolve"
    /\ current_thresholds' = NormalThresholds
    /\ pc' = "normal_resolved"
    /\ UNCHANGED <<guiVars, inputVars, callVars, profileVars, combined_events, event_idx,
                   time_of_last_generated_cue_overall, sensitivity_boost_active,
                   generated_types_this_event, potential_cues, limitVars>>

\* Lines 310-312: the thresholds of the boosted key map.
ResolveBoost ==
    /\ pc = "normal_resolved"
    /\ sensitivity_boost_active' = TRUE
    /\ current_thresholds' = BoostThresholds
    /\ pc' = "boost_resolved"
    /\ UNCHANGED <<guiVars, inputVars, callVars, profileVars, combined_events, event_idx,
                   time_of_last_generated_cue_overall,
                   generated_types_this_event, potential_cues, limitVars>>

ResolverNext ==
    \/ ResolveNormal
    \/ ResolveBoost

SpecResolver == ResolverInit /\ [][ResolverNext]_vars

\* ------------------------------------------------ the profiler on its own
\* calculate_feature_profile takes any array.  The three calls of lines
\* 269-271 are made here on arrays of any content, empty ones included.
ProfilerArrays == SeqsUpTo(Levels, MaxSamples)

ProfilerInit ==
    /\ rms_frames \in ProfilerArrays
    /\ sc_frames \in {<<>>, <<Epsilon>>}
    /\ flux_frames \in {<<>>, <<0, 0>>, <<0, Epsilon + 1>>, <<Epsilon>>}
    /\ pc = "profile_rms"
    /\ rms_profile = <<>>
    /\ sc_profile = <<>>
    /\ flux_profile = <<>>
    /\ profile_name = "balanced"
    /\ current_thresholds = Unset
    /\ sensitivity_boost_active = FALSE
    /\ onset_times = <<>> /\ beat_times = <<>>
    /\ allow_kick_with_others = FALSE
    /\ quiet_duration_for_boost = Inf
    /\ combined_events = <<>>
    /\ event_idx = 1
    /\ time_of_last_generated_cue_overall = NegInf
    /\ generated_types_this_event = <<>>
    /\ potential_cues = <<>>
    /\ deduplicated_cues = <<>>
    /\ cue_idx = 1
    /\ min_same_type_cooldown = 0
    /\ min_any_particle_cooldown = 0
    /\ last_cue_times_by_type = [fw \in FireworkValues |-> NegInf]
    /\ last_particle_cue_time = NegInf
    /\ dropped_same_type = 0
    /\ dropped_particle_proximity = 0
    /\ final_cues = <<>>
    /\ uuid_entropy = 0
    /\ run = 1
    /\ first_run_cues = <<>>
    /\ GuiConstructed

\* Line 269: calculate_feature_profile(rms_frames, "RMS"), filter_zeros True.
ProfileRms ==
    /\ pc = "profile_rms"
    /\ rms_profile' = calculate_feature_profile(rms_frames, TRUE)
    /\ pc' = "profile_sc"
    /\ UNCHANGED <<guiVars, inputVars, callVars, sc_profile, flux_profile, scanVars, limitVars>>

\* Line 270: calculate_feature_profile(sc_frames, "Spectral Centroid").
ProfileSc ==
    /\ pc = "profile_sc"
    /\ sc_profile' = calculate_feature_profile(sc_frames, TRUE)
    /\ pc' = "profile_flux"
    /\ UNCHANGED <<guiVars, inputVars, callVars, rms_profile, flux_profile, scanVars, limitVars>>

\* Line 271: calculate_feature_profile(flux_frames, ..., filter_zeros=False).
ProfileFlux ==
    /\ pc = "profile_flux"
    /\ flux_profile' = calculate_feature_profile(flux_frames, FALSE)
    /\ pc' = "profiled"
    /\ UNCHANGED <<guiVars, inputVars, callVars, rms_profile, sc_profile, scanVars, limitVars>>

ProfilerNext ==
    \/ ProfileRms
    \/ ProfileSc
    \/ ProfileFlux

SpecProfiler == ProfilerInit /\ [][ProfilerNext]_vars

\* ------------------------------------------------------------- properties
FinalIdx == 1 .. Len(final_cues)

\* The categories PARTICLE_FIREWORK_TYPES lists, by name.
ParticleClass == {"mid_burst", "high_sparkle", "kick_boom", "comet_tail"}

\* C1: the returned list is ordered by non-decreasing timestamp: every cue's
\* timestamp is at most its successor's.
C1_Monotonic ==
    \A i \in 1 .. Len(final_cues) - 1 :
        final_cues[i].timestamp <= final_cues[i + 1].timestamp

\* A finished run whose list rises in time while the category order falls.
C1_Witness ==
    /\ pc = "done"
    /\ \E i \in 1 .. Len(final_cues) - 1 :
          /\ final_cues[i].timestamp < final_cues[i + 1].timestamp
          /\ FireworkOrder[final_cues[i].firework] > FireworkOrder[final_cues[i + 1].firework]

\* C2: any two cues of the final list with the same category lie at least
\* min_same_type_cooldown apart.
C2_SameCategorySpacing ==
    \A i, j \in FinalIdx :
        (i < j /\ final_cues[i].firework = final_cues[j].firework)
            => final_cues[j].timestamp - final_cues[i].timestamp >= min_same_type_cooldown

\* A finished run that kept two cues of one category.
C2_Witness ==
    /\ pc = "done"
    /\ \E i, j \in FinalIdx : i < j /\ final_cues[i].firework = final_cues[j].firework

\* C3: any two particle-class cues of the final list with different
\* timestamps lie at least min_any_particle_cooldown apart.
C3_ParticleSpacing ==
    \A i, j \in FinalIdx :
        (/\ i < j
         /\ final_cues[i].firework \in ParticleClass
         /\ final_cues[j].firework \in ParticleClass
         /\ final_cues[i].timestamp # final_cues[j].timestamp)
            => final_cues[j].timestamp - final_cues[i].timestamp >= min_any_particle_cooldown

\* A finished run that kept two particle-class cues at different timestamps
\* under a positive particle cooldown.
C3_Witness ==
    /\ pc = "done"
    /\ min_any_particle_cooldown > 0
    /\ \E i, j \in FinalIdx :
          /\ final_cues[i].firework \in ParticleClass
          /\ final_cues[j].firework \in ParticleClass
          /\ final_cues[i].timestamp < final_cues[j].timestamp

\* The cue the limiter loop is looking at.
CurrentCue == deduplicated_cues[cue_idx]

\* The cue passes line 386: it is not within the same-category cooldown.
PassesSameCategory(cue) ==
    \/ last_cue_times_by_type[cue.firework] = NegInf
    \/ cue.timestamp - last_cue_times_by_type[cue.firework] >= min_same_type_cooldown

\* The cue lies within the particle cooldown of the last kept particle cue.
WithinParticleGap(cue) ==
    /\ last_particle_cue_time # NegInf
    /\ cue.timestamp - last_particle_cue_time < min_any_particle_cooldown

\* The co-fire case: the last kept cue has the cue's timestamp, is
\* particle-class and is of another category.
SimultaneousCoFire(cue) ==
    /\ final_cues # <<>>
    /\ final_cues[Len(final_cues)].timestamp = cue.timestamp
    /\ final_cues[Len(final_cues)].firework \in ParticleClass
    /\ final_cues[Len(final_cues)].firework # cue.firework

\* C4 as stated: a particle-class cue that passes the same-category limiter
\* and lies within the particle cooldown is kept when the last kept cue is a
\* simultaneous particle cue of another category.
C4_CoFireKept ==
    [][(/\ pc = "limit"
        /\ CurrentCue.firework \in ParticleClass
        /\ PassesSameCategory(CurrentCue)
        /\ WithinParticleGap(CurrentCue)
        /\ SimultaneousCoFire(CurrentCue))
          => final_cues' = Append(final_cues, CurrentCue)]_vars

\* C4 amended: such a cue is dropped by the particle limiter, co-fire or not,
\* and counted as a particle-proximity drop; under a positive particle
\* cooldown no two particle-class cues of the final list share a timestamp.
C4_CoFireDropped ==
    /\ [][(/\ pc = "limit"
           /\ CurrentCue.firework \in ParticleClass
           /\ PassesSameCategory(CurrentCue)
           /\ WithinParticleGap(CurrentCue))
             => /\ final_cues' = final_cues
                /\ dropped_particle_proximity' = dropped_particle_proximity + 1
                /\ last_particle_cue_time' = last_particle_cue_time]_vars
    /\ [](min_any_particle_cooldown > 0 =>
            \A i, j \in FinalIdx :
                (/\ i < j
                 /\ final_cues[i].firework \in ParticleClass
                 /\ final_cues[j].firework \in ParticleClass)
                    => final_cues[i].timestamp # final_cues[j].timestamp)

\* The limiter has just dropped, for particle proximity, a cue whose
\* predecessor in the final list is a simultaneous particle cue of another
\* category.
C4_Witness ==
    /\ pc \in {"limit", "done"}
    /\ cue_idx > 1
    /\ dropped_particle_proximity > 0
    /\ LET cue == deduplicated_cues[cue_idx - 1]
       IN  /\ cue.firework \in ParticleClass
           /\ SimultaneousCoFire(cue)
           /\ \A i \in FinalIdx : final_cues[i] # cue

\* The two beat-driven categories.
BeatDriven == {"mid_burst", "high_sparkle"}

\* C5 as stated: the beat-driven categories are ambient; a beat-driven cue is
\* never dropped for particle proximity and never moves last_particle_cue_time.
C5_BeatDrivenAmbient ==
    [][(pc = "limit" /\ CurrentCue.firework \in BeatDriven)
          => /\ dropped_particle_proximity' = dropped_particle_proximity
             /\ last_particle_cue_time' = last_particle_cue_time]_vars

\* C5 amended: the particle limiter applies exactly to mid, bright, kick and
\* sharp-accent.  A deep-bass cue is never dropped for particle proximity and
\* never moves last_particle_cue_time; a cue of any other category that
\* passes the same-category limiter is dropped when within the particle
\* cooldown and otherwise kept, moving last_particle_cue_time to its timestamp.
C5_OnlyDeepBassAmbient ==
    [][pc = "limit" =>
          IF CurrentCue.firework = "bass_pulse"
          THEN /\ dropped_particle_proximity' = dropped_particle_proximity
               /\ last_particle_cue_time' = last_particle_cue_time
               /\ PassesSameCategory(CurrentCue)
                    => final_cues' = Append(final_cues, CurrentCue)
          ELSE PassesSameCategory(CurrentCue) =>
                 IF WithinParticleGap(CurrentCue)
                 THEN /\ dropped_particle_proximity' = dropped_particle_proximity + 1
                      /\ final_cues' = final_cues
                 ELSE /\ final_cues' = Append(final_cues, CurrentCue)
                      /\ last_particle_cue_time' = CurrentCue.timestamp]_vars

\* A deep-bass cue has just been kept within the particle cooldown of the last
\* kept particle cue, and that particle cue is a beat-driven one.
C5_Witness ==
    /\ pc \in {"limit", "done"}
    /\ cue_idx > 1
    /\ final_cues # <<>>
    /\ final_cues[Len(final_cues)] = deduplicated_cues[cue_idx - 1]
    /\ final_cues[Len(final_cues)].firework = "bass_pulse"
    /\ WithinParticleGap(final_cues[Len(final_cues)])
    /\ \E i \in FinalIdx :
          /\ final_cues[i].firework \in BeatDriven
          /\ final_cues[i].timestamp = last_particle_cue_time

\* The event the scan loop is looking at, and its hop index.
CurrentEvent == combined_events[event_idx]

CurrentFrame == TimeToFrames(CurrentEvent.time)

\* The hop index of the current event is outside an array the event reads.
EventOutOfRange ==
    \/ CurrentFrame < 0
    \/ CurrentFrame >= Len(rms_frames)
    \/ CurrentFrame >= Len(sc_frames)
    \/ CurrentEvent.type = "onset" /\ CurrentFrame >= Len(flux_frames)

\* The categories of the candidates a step appends.
EmittedNow ==
    {potential_cues'[i].firework : i \in Len(potential_cues) + 1 .. Len(potential_cues')}

\* The current event lies more than the quiet gap after the last emitted cue.
QuietGapPassed ==
    \/ time_of_last_generated_cue_overall = NegInf
    \/ CurrentEvent.time - TicksPerMs * time_of_last_generated_cue_overall
         > TicksPerMs * quiet_duration_for_boost

\* C6: the regime goes from Normal to Boosted at an event exactly when it is
\* Normal, the quiet gap is finite and the event lies more than the quiet gap
\* after the last emitted cue; the event is then classified with the
\* thresholds of the boosted key map; with an infinite quiet gap the regime
\* is never Boosted.
C6_BoostSwitch ==
    /\ [][pc = "boost_check" =>
            IF ~sensitivity_boost_active /\ quiet_duration_for_boost # Inf /\ QuietGapPassed
            THEN sensitivity_boost_active' /\ current_thresholds' = BoostThresholds
            ELSE /\ sensitivity_boost_active' = sensitivity_boost_active
                 /\ current_thresholds' = current_thresholds]_vars
    /\ [][(~sensitivity_boost_active /\ sensitivity_boost_active') => pc = "boost_check"]_vars
    /\ [](pc = "classify" =>
            current_thresholds =
                IF sensitivity_boost_active THEN BoostThresholds ELSE NormalThresholds)
    /\ [](quiet_duration_for_boost = Inf => ~sensitivity_boost_active)

\* An event after the first emitted cue is about to be classified Boosted,
\* with boosted thresholds that differ from the normal ones.
C6_Witness ==
    /\ pc = "classify"
    /\ sensitivity_boost_active
    /\ time_of_last_generated_cue_overall # NegInf
    /\ ~EventOutOfRange
    /\ BoostThresholds # NormalThresholds

\* C7: an event processed in the Boosted regime that emits a candidate
\* leaves the regime Normal with the thresholds of the normal key map; one
\* that emits none leaves the regime Boosted.
C7_BoostRevert ==
    [][(pc = "classify" /\ sensitivity_boost_active) =>
          IF potential_cues' # potential_cues
          THEN ~sensitivity_boost_active' /\ current_thresholds' = NormalThresholds
          ELSE sensitivity_boost_active' /\ current_thresholds' = current_thresholds]_vars

\* Under a finite quiet gap an event has emitted and the regime is Normal
\* again: the first emitting event was classified Boosted.
C7_Witness ==
    /\ pc \in {"boost_check", "finalize"}
    /\ quiet_duration_for_boost # Inf
    /\ event_idx > 1
    /\ generated_types_this_event # <<>>
    /\ time_of_last_generated_cue_overall # NegInf
    /\ ~sensitivity_boost_active

\* C8: an event whose hop index is out of range is skipped entirely; no step
\* of its processing appends a candidate or changes the regime, the active
\* thresholds or time_of_last_generated_cue_overall.
C8_SkippedEventChangesNothing ==
    [][(pc \in {"boost_check", "classify"} /\ EventOutOfRange) =>
          /\ potential_cues' = potential_cues
          /\ sensitivity_boost_active' = sensitivity_boost_active
          /\ current_thresholds' = current_thresholds
          /\ time_of_last_generated_cue_overall' = time_of_last_generated_cue_overall]_vars

\* C9: when one of the three feature arrays is empty the call returns the
\* empty list: no event is merged or classified and no cue is produced.
C9_EmptyFeatures ==
    (Len(rms_frames) = 0 \/ Len(sc_frames) = 0 \/ Len(flux_frames) = 0) =>
        /\ pc \in {"start", "done"}
        /\ final_cues = <<>>
        /\ potential_cues = <<>>
        /\ combined_events = <<>>
        /\ event_idx = 1

\* The call has returned with only the flux array empty and events given.
C9_Witness ==
    /\ pc = "done"
    /\ Len(rms_frames) > 0 /\ Len(sc_frames) > 0 /\ Len(flux_frames) = 0
    /\ Len(onset_times) + Len(beat_times) > 0
    /\ final_cues = <<>>

\* C10: an in-range onset emits a kick exactly when its loudness exceeds the
\* active onset threshold and either allow_kick_with_others is true or the
\* event emitted neither deep-bass nor sharp-accent; with the toggle false no
\* event emits a kick together with another category.
C10_KickRule ==
    [][(pc = "classify" /\ CurrentEvent.type = "onset" /\ ~EventOutOfRange) =>
          /\ "kick_boom" \in EmittedNow
               <=> /\ PctScale * rms_frames[CurrentFrame + 1]
                        > current_thresholds.onset_rms_trigger_threshold
                   /\ \/ allow_kick_with_others
                      \/ ("bass_pulse" \notin EmittedNow /\ "comet_tail" \notin EmittedNow)
          /\ ~allow_kick_with_others =>
                ("kick_boom" \in EmittedNow => EmittedNow = {"kick_boom"})]_vars

\* With the toggle false, the first event, an onset, has emitted deep-bass or
\* sharp-accent and no kick.
C10_Witness ==
    /\ pc \in {"boost_check", "finalize"}
    /\ ~allow_kick_with_others
    /\ event_idx = 2
    /\ combined_events[1].type = "onset"
    /\ generated_types_this_event # <<>>
    /\ \A i \in 1 .. Len(generated_types_this_event) :
          generated_types_this_event[i] # "kick_boom"
    /\ Len(potential_cues) = Len(generated_types_this_event)


\* The samples the current event reads.
CurrentRms == rms_frames[CurrentFrame + 1]

CurrentSc == sc_frames[CurrentFrame + 1]

CurrentFlux == flux_frames[CurrentFrame + 1]

\* The candidates a step appends, in order.
AppendedNow == SubSeq(potential_cues', Len(potential_cues) + 1, Len(potential_cues'))

\* C11: an in-range onset emits a deep-bass candidate exactly when its
\* loudness exceeds the active onset threshold and its centroid lies below
\* the active bass threshold, and a sharp-accent candidate exactly when its
\* loudness exceeds the active sharp loudness threshold and its flux the
\* active flux threshold; neither rule looks at the other.
C11_BassAndSharpRules ==
    [][(pc = "classify" /\ CurrentEvent.type = "onset" /\ ~EventOutOfRange) =>
          /\ "bass_pulse" \in EmittedNow
               <=> /\ PctScale * CurrentRms > current_thresholds.onset_rms_trigger_threshold
                   /\ PctScale * CurrentSc < current_thresholds.bass_sc_thresh
          /\ "comet_tail" \in EmittedNow
               <=> /\ PctScale * CurrentRms > current_thresholds.sharp_onset_rms_thresh
                   /\ PctScale * CurrentFlux > current_thresholds.flux_trigger_threshold]_vars

\* The first event, an onset, has emitted both a deep-bass and a sharp-accent
\* candidate.
C11_Witness ==
    /\ pc \in {"boost_check", "finalize"}
    /\ event_idx = 2
    /\ combined_events[1].type = "onset"
    /\ Len(potential_cues) = Len(generated_types_this_event)
    /\ \E i, j \in 1 .. Len(potential_cues) :
          /\ potential_cues[i].firework = "bass_pulse"
          /\ potential_cues[j].firework = "comet_tail"

\* C12: an in-range beat emits exactly one candidate when its loudness is
\* strictly above the active beat threshold, bright when its centroid is above
\* the active split and mid otherwise, and none when the loudness is at or
\* below the threshold; a beat never emits an onset-driven category.
C12_BeatRule ==
    [][(pc = "classify" /\ CurrentEvent.type = "beat" /\ ~EventOutOfRange) =>
          /\ Len(AppendedNow) <= 1
          /\ IF PctScale * CurrentRms > current_thresholds.rms_trigger_threshold_beat
             THEN /\ Len(AppendedNow) = 1
                  /\ AppendedNow[1].firework =
                        IF PctScale * CurrentSc > current_thresholds.sc_beat_split_thresh
                        THEN "high_sparkle" ELSE "mid_burst"
             ELSE AppendedNow = <<>>
          /\ EmittedNow \subseteq BeatDriven]_vars

\* The first event, a beat whose loudness equals the beat threshold it was
\* classified with, has emitted nothing.
C12_Witness ==
    /\ pc \in {"boost_check", "finalize"}
    /\ event_idx = 2
    /\ combined_events[1].type = "beat"
    /\ quiet_duration_for_boost = Inf
    /\ FrameInRange(TimeToFrames(combined_events[1].time), "beat",
                    rms_frames, sc_frames, flux_frames)
    /\ PctScale * rms_frames[TimeToFrames(combined_events[1].time) + 1]
          = NormalThresholds.rms_trigger_threshold_beat
    /\ potential_cues = <<>>

\* The resolver has run, and the key map it was given.
Resolved == pc \in {"normal_resolved", "boost_resolved"}

ResolvedKeys ==
    IF pc = "boost_resolved" THEN PROFILES[profile_name].dynamic_threshold_keys_boost
    ELSE PROFILES[profile_name].dynamic_threshold_keys

\* The six logical thresholds, and for each the profile it is read from and
\* the percentile key the key map names for it (lines 251-256).
ThresholdFields ==
    {"rms_trigger_threshold_beat", "sc_beat_split_thresh", "bass_sc_thresh",
     "onset_rms_trigger_threshold", "flux_trigger_threshold", "sharp_onset_rms_thresh"}

ProfileOf(field) ==
    CASE field \in {"sc_beat_split_thresh", "bass_sc_thresh"} -> sc_profile
      [] field = "flux_trigger_threshold" -> flux_profile
      [] OTHER -> rms_profile

KeyOf(field) ==
    CASE field = "rms_trigger_threshold_beat" -> ResolvedKeys.key_rms_beat
      [] field = "sc_beat_split_thresh" -> ResolvedKeys.key_sc_beat_split
      [] field = "bass_sc_thresh" -> ResolvedKeys.key_bass_sc
      [] field = "onset_rms_trigger_threshold" -> ResolvedKeys.key_onset_rms_general
      [] field = "flux_trigger_threshold" -> ResolvedKeys.key_flux_sharp
      [] OTHER -> ResolvedKeys.key_rms_sharp

Has(profile, key) == key \in DOMAIN profile

\* C13: when the key requested for the bass-centroid threshold is absent from
\* the brightness profile, the threshold is the profile's p25 if present,
\* otherwise its p10 if present, otherwise its p50.
C13_BassFallbackChain ==
    (Resolved /\ ~Has(sc_profile, ResolvedKeys.key_bass_sc)) =>
        IF Has(sc_profile, "p25") THEN current_thresholds.bass_sc_thresh = sc_profile["p25"]
        ELSE IF Has(sc_profile, "p10")
             THEN current_thresholds.bass_sc_thresh = sc_profile["p10"]
             ELSE Has(sc_profile, "p50") =>
                    current_thresholds.bass_sc_thresh = sc_profile["p50"]

\* C14 as stated: for each of the six thresholds, a requested key absent
\* from its profile resolves to that profile's p50.
C14_FallbackIsMedian ==
    Resolved =>
        \A field \in ThresholdFields :
            (~Has(ProfileOf(field), KeyOf(field)) /\ Has(ProfileOf(field), "p50"))
                => current_thresholds[field] = ProfileOf(field)["p50"]

\* C14 amended: a requested key absent from its profile resolves to the
\* profile's p50 for the five thresholds other than the bass-centroid one;
\* the bass-centroid threshold resolves to the brightness profile's p25 when
\* that is present and to its p50 otherwise.
C14_FallbackIsMedianButBass ==
    Resolved =>
        \A field \in ThresholdFields :
            ~Has(ProfileOf(field), KeyOf(field)) =>
                IF field = "bass_sc_thresh" /\ Has(sc_profile, "p25")
                THEN current_thresholds[field] = sc_profile["p25"]
                ELSE Has(ProfileOf(field), "p50")
                        => current_thresholds[field] = ProfileOf(field)["p50"]

\* Every requested key is absent while p25 and p50 are present in all three
\* profiles: the bass-centroid threshold is the p25, the other five the p50.
C14_Witness ==
    /\ Resolved
    /\ \A field \in ThresholdFields :
          /\ ~Has(ProfileOf(field), KeyOf(field))
          /\ Has(ProfileOf(field), "p25")
          /\ Has(ProfileOf(field), "p50")
          /\ ProfileOf(field)["p25"] # ProfileOf(field)["p50"]
    /\ current_thresholds.bass_sc_thresh = sc_profile["p25"]
    /\ current_thresholds.sc_beat_split_thresh = sc_profile["p50"]

\* C15: whatever keys the three profiles hold, every threshold resolves to a
\* number; when the requested key and the fallback key are both missing the
\* value is the profile's median field, and zero when that is missing too.
C15_AlwaysResolves ==
    Resolved =>
        \A field \in ThresholdFields :
            /\ current_thresholds[field] \in Int
            /\ (/\ ~Has(ProfileOf(field), KeyOf(field))
                /\ ~Has(ProfileOf(field), "p50")
                /\ field = "bass_sc_thresh" => ~Has(sc_profile, "p25"))
                  => current_thresholds[field] =
                        IF Has(ProfileOf(field), "median")
                        THEN ProfileOf(field)["median"] ELSE 0

\* The brightness profile holds nothing but its median field and the loudness
\* profile nothing at all: the first resolves to the median, the second to 0.
C15_Witness ==
    /\ Resolved
    /\ DOMAIN sc_profile = {"median"}
    /\ DOMAIN rms_profile = {}
    /\ current_thresholds.bass_sc_thresh = sc_profile["median"]
    /\ current_thresholds.bass_sc_thresh # 0
    /\ current_thresholds.onset_rms_trigger_threshold = 0

\* Both calls have returned.
BothRunsDone == run = 2 /\ pc = "done"

TwoCloseKicks ==
    /\ pc \in {"limit", "done"}
    /\ ~allow_kick_with_others
    /\ Len(combined_events) = 2
    /\ \A i \in 1 .. 2 : combined_events[i].type = "onset"
    /\ Len(deduplicated_cues) = 2
    /\ \A i \in 1 .. 2 : deduplicated_cues[i].firework = "kick_boom"
    /\ deduplicated_cues[1].timestamp < deduplicated_cues[2].timestamp
    /\ deduplicated_cues[2].timestamp - deduplicated_cues[1].timestamp
          < min_any_particle_cooldown

\* The gap between the two kicks of the scenario.
KickGap == deduplicated_cues[2].timestamp - deduplicated_cues[1].timestamp

\* C17 as stated: in the scenario the earlier kick is kept and the second is
\* dropped by the particle limiter, so one kick is in the final list.
C17_SecondKickDroppedByParticleLimiter ==
    (TwoCloseKicks /\ pc = "done") =>
        /\ final_cues = <<deduplicated_cues[1]>>
        /\ dropped_particle_proximity = 1

\* C17 amended: in the scenario the earlier kick is kept and the second is
\* dropped, so one kick is in the final list; the second is dropped by the
\* same-category limiter when the gap is below min_same_type_cooldown, and by
\* the particle limiter only otherwise.
C17_SecondKickDropped ==
    (TwoCloseKicks /\ pc = "done") =>
        /\ final_cues = <<deduplicated_cues[1]>>
        /\ IF KickGap < min_same_type_cooldown
           THEN dropped_same_type = 1 /\ dropped_particle_proximity = 0
           ELSE dropped_same_type = 0 /\ dropped_particle_proximity = 1

\* The scenario has run to its end with the gap at least the same-category
\* cooldown: the particle limiter dropped the second kick.
C17_Witness ==
    /\ TwoCloseKicks
    /\ pc = "done"
    /\ KickGap >= min_same_type_cooldown
    /\ dropped_particle_proximity = 1
    /\ Len(final_cues) = 1

\* C18: the limiters take the cues of the sorted list one at a time, and a
\* cue stopped by the same-category limiter goes no further: it is counted as
\* a same-category drop and not as a particle drop, it is not kept, and it
\* leaves last_particle_cue_time and every entry of last_cue_times_by_type
\* as they were.
C18_SameCategoryDropStopsThere ==
    /\ [][(pc = "limit" /\ ~PassesSameCategory(CurrentCue)) =>
            /\ dropped_same_type' = dropped_same_type + 1
            /\ dropped_particle_proximity' = dropped_particle_proximity
            /\ last_particle_cue_time' = last_particle_cue_time
            /\ last_cue_times_by_type' = last_cue_times_by_type
            /\ final_cues' = final_cues]_vars
    /\ [][pc = "limit" =>
            /\ cue_idx' = cue_idx + 1
            /\ deduplicated_cues' = deduplicated_cues]_vars
    /\ [](pc \in {"limit", "done"} =>
            \A i \in 1 .. Len(deduplicated_cues) - 1 :
                CueSortKey(deduplicated_cues[i]) < CueSortKey(deduplicated_cues[i + 1]))

\* The same-category limiter has just dropped a particle-class cue that also
\* lay within the particle cooldown of the last kept particle cue.
C18_Witness ==
    /\ pc \in {"limit", "done"}
    /\ cue_idx > 1
    /\ dropped_same_type > 0
    /\ dropped_particle_proximity = 0
    /\ LET cue == deduplicated_cues[cue_idx - 1]
       IN  /\ cue.firework \in ParticleClass
           /\ ~PassesSameCategory(cue)
           /\ WithinParticleGap(cue)
           /\ \A i \in FinalIdx : final_cues[i] # cue

\* The times of the merged events of one type, in merged order.
MergedTimes(type) ==
    LET of_type == SelectSeq(combined_events, LAMBDA e : e.type = type)
    IN  [i \in 1 .. Len(of_type) |-> of_type[i].time]

\* C19: the merged events are in non-decreasing time order and are taken one
\* after the other in that order; events of equal time keep the order of the
\* input, so the onsets appear in the order given, the beats in the order
\* given, and an onset at time t comes before every beat at time t.
C19_EventOrder ==
    /\ [](\A i, j \in 1 .. Len(combined_events) :
            i < j => /\ combined_events[i].time <= combined_events[j].time
                     /\ combined_events[i].time = combined_events[j].time
                          => ~(combined_events[i].type = "beat"
                               /\ combined_events[j].type = "onset"))
    /\ [](pc \in {"boost_check", "classify", "finalize", "limit"} =>
            /\ MergedTimes("onset") = onset_times
            /\ MergedTimes("beat") = beat_times)
    /\ [][pc = "boost_check" =>
            (event_idx' = event_idx /\ combined_events' = combined_events)]_vars
    /\ [][pc = "classify" =>
            (event_idx' = event_idx + 1 /\ combined_events' = combined_events)]_vars

\* A beat is about to be classified right after an onset of the same time,
\* which emitted a candidate.
C19_Witness ==
    /\ pc = "classify"
    /\ event_idx = 2
    /\ combined_events[1].type = "onset"
    /\ combined_events[2].type = "beat"
    /\ combined_events[1].time = combined_events[2].time
    /\ potential_cues # <<>>
    /\ ~EventOutOfRange

\* The (timestamp, category) pairs of a list of cues.
PairsOf(cue_list) ==
    {<<cue_list[i].timestamp, cue_list[i].firework>> : i \in 1 .. Len(cue_list)}

\* C20: once the candidates are sorted by (timestamp, category) and the
\* consecutive repeats removed, the deduplicated list holds every
\* (timestamp, category) pair of the candidate list, each exactly once; the
\* final list never holds two cues with the same timestamp and category.
C20_EachPairOnce ==
    /\ pc \in {"limit", "done"} =>
          /\ \A i \in 1 .. Len(potential_cues) - 1 :
                CueSortKey(potential_cues[i]) <= CueSortKey(potential_cues[i + 1])
          /\ PairsOf(deduplicated_cues) = PairsOf(potential_cues)
          /\ Cardinality(PairsOf(deduplicated_cues)) = Len(deduplicated_cues)
    /\ \A i, j \in FinalIdx :
          i < j => <<final_cues[i].timestamp, final_cues[i].firework>>
                     # <<final_cues[j].timestamp, final_cues[j].firework>>

\* The call has returned after two events emitted the same two candidates:
\* four candidates, two pairs, two deduplicated cues.
C20_Witness ==
    /\ pc = "done"
    /\ Len(potential_cues) = 4
    /\ Len(deduplicated_cues) = 2
    /\ deduplicated_cues[1].timestamp = deduplicated_cues[2].timestamp
    /\ final_cues # <<>>

\* The profile of an array has been computed.
RmsProfiled == pc \in {"profile_sc", "profile_flux", "profiled"}

FluxProfiled == pc = "profiled"

\* The dictionary with count 0 and every statistic and percentile 0.
AllZeroProfile ==
    [k \in {"min", "max", "mean", "std", "count", "median"} \cup PKeys |-> 0]

\* C21: the profile of an empty array, computed with or without the
\* near-zero filter, has count 0 and min, max, mean, std, median and
\* every percentile 0.
C21_EmptyArrayProfile ==
    /\ (RmsProfiled /\ rms_frames = <<>>) => rms_profile = AllZeroProfile
    /\ (FluxProfiled /\ flux_frames = <<>>) => flux_profile = AllZeroProfile

\* The profiles of an empty loudness array and of an empty flux array have
\* been computed, next to that of a centroid array that is not empty.
C21_Witness ==
    /\ pc = "profiled"
    /\ rms_frames = <<>>
    /\ flux_frames = <<>>
    /\ sc_frames # <<>>
    /\ rms_profile["count"] = 0
    /\ flux_profile["std"] = 0
    /\ sc_profile["count"] = 1

\* The samples of the loudness array whose magnitude is at least 1e-6, and
\* the samples that are greater than 1e-6.
AtLeastEpsilonInMagnitude ==
    SelectSeq(rms_frames, LAMBDA x : x >= Epsilon \/ 0 - x >= Epsilon)

GreaterThanEpsilon == SelectSeq(rms_frames, LAMBDA x : x > Epsilon)

\* The statistics of the samples chosen, or of the whole array when none is.
StatisticsOver(chosen) ==
    calculate_feature_profile(IF chosen = <<>> THEN rms_frames ELSE chosen, FALSE)

\* C22 as stated: with the filter on, the statistics are those of exactly the
\* samples whose magnitude is at least 1e-6, or of the whole array when
\* there is no such sample.
C22_FilterByMagnitude ==
    (RmsProfiled /\ rms_frames # <<>>) =>
        rms_profile = StatisticsOver(AtLeastEpsilonInMagnitude)

\* C22 amended: with the filter on, the statistics are those of exactly the
\* samples that are greater than 1e-6 (a sample equal to 1e-6 and a negative
\* sample are left out), or of the whole array when there is no such sample.
C22_FilterGreaterThanEpsilon ==
    (RmsProfiled /\ rms_frames # <<>>) =>
        rms_profile = StatisticsOver(GreaterThanEpsilon)

\* The profile of an array holding a zero, a sample equal to 1e-6 and one
\* sample above it has been computed over that one sample.
C22_Witness ==
    /\ RmsProfiled
    /\ \E i, j, k \in 1 .. Len(rms_frames) :
          rms_frames[i] = 0 /\ rms_frames[j] = Epsilon /\ rms_frames[k] > Epsilon
    /\ rms_profile["count"] = 1

\* a is not before b, for times of which either may be minus infinity.
NotBefore(a, b) == b = NegInf \/ (a # NegInf /\ a >= b)

\* The millisecond nearest to a time in ticks, the even one of two equally near.
NearestMs(t) ==
    CHOOSE m \in 0 .. t :
        LET d == IF TicksPerMs * m >= t THEN TicksPerMs * m - t ELSE t - TicksPerMs * m
        IN  2 * d <= TicksPerMs /\ (2 * d = TicksPerMs => m % 2 = 0)

\* C23 as stated: the time of the last emitted cue starts at minus infinity;
\* after an event is processed it equals that event's time if the event
\* emitted a candidate and is unchanged otherwise; it never decreases.
C23_LastEmittedIsEventTime ==
    /\ [](pc = "start" => time_of_last_generated_cue_overall = NegInf)
    /\ [](pc = "boost_check" /\ potential_cues = <<>> =>
              time_of_last_generated_cue_overall = NegInf)
    /\ [][pc = "classify" =>
            IF EmittedNow # {}
            THEN /\ time_of_last_generated_cue_overall' # NegInf
                 /\ TicksPerMs * time_of_last_generated_cue_overall' = CurrentEvent.time
            ELSE time_of_last_generated_cue_overall' = time_of_last_generated_cue_overall]_vars
    /\ [][NotBefore(time_of_last_generated_cue_overall',
                    time_of_last_generated_cue_overall)]_vars

\* C23 amended: the time of the last emitted cue starts at minus infinity;
\* after an event is processed it equals that event's time rounded to the
\* millisecond (the timestamp its candidates carry) if the event emitted a
\* candidate and is unchanged otherwise; it never decreases.
C23_LastEmittedIsRoundedEventTime ==
    /\ [](pc = "start" => time_of_last_generated_cue_overall = NegInf)
    /\ [](pc = "boost_check" /\ potential_cues = <<>> =>
              time_of_last_generated_cue_overall = NegInf)
    /\ [][pc = "classify" =>
            IF EmittedNow # {}
            THEN /\ time_of_last_generated_cue_overall' = NearestMs(CurrentEvent.time)
                 /\ \A i \in Len(potential_cues) + 1 .. Len(potential_cues') :
                       potential_cues'[i].timestamp = time_of_last_generated_cue_overall'
            ELSE time_of_last_generated_cue_overall' = time_of_last_generated_cue_overall]_vars
    /\ [][NotBefore(time_of_last_generated_cue_overall',
                    time_of_last_generated_cue_overall)]_vars

\* An event that lies between two milliseconds has emitted, after an earlier
\* event that emitted nothing left the time at minus infinity or an earlier
\* emission left it lower.
C23_Witness ==
    /\ pc \in {"boost_check", "finalize"}
    /\ event_idx > 1
    /\ combined_events[event_idx - 1].time % TicksPerMs # 0
    /\ generated_types_this_event # <<>>
    /\ time_of_last_generated_cue_overall = NearestMs(combined_events[event_idx - 1].time)

\* The positions of the deduplicated list, and the one where a cue of the
\* final list stands in it (0 when it stands nowhere).
DedupIdx == 1 .. Len(deduplicated_cues)

PositionInDeduplicated(cue) ==
    IF \E j \in DedupIdx : deduplicated_cues[j] = cue
    THEN CHOOSE j \in DedupIdx : deduplicated_cues[j] = cue
    ELSE 0

\* C24: the final list is a subsequence of the sorted, deduplicated candidate
\* list: every final cue is a candidate with its timestamp and category
\* unchanged, the relative order is that of the deduplicated list, and no
\* cue is added.
C24_FinalIsSubsequence ==
    /\ \A i \in FinalIdx :
          /\ PositionInDeduplicated(final_cues[i]) # 0
          /\ \E k \in 1 .. Len(potential_cues) :
                /\ potential_cues[k].timestamp = final_cues[i].timestamp
                /\ potential_cues[k].firework = final_cues[i].firework
    /\ \A i, j \in FinalIdx :
          i < j => PositionInDeduplicated(final_cues[i]) < PositionInDeduplicated(final_cues[j])
    /\ Len(final_cues) <= Len(deduplicated_cues)
    /\ \A j, k \in DedupIdx : j < k =>
          \/ deduplicated_cues[j].timestamp < deduplicated_cues[k].timestamp
          \/ /\ deduplicated_cues[j].timestamp = deduplicated_cues[k].timestamp
             /\ deduplicated_cues[j].firework # deduplicated_cues[k].firework

\* The call has returned two or more cues, and a deduplicated candidate
\* standing between two of them was dropped.
C24_Witness ==
    /\ pc = "done"
    /\ Len(final_cues) >= 2
    /\ \E j \in DedupIdx :
          /\ \A i \in FinalIdx : final_cues[i] # deduplicated_cues[j]
          /\ PositionInDeduplicated(final_cues[1]) < j
          /\ j < PositionInDeduplicated(final_cues[Len(final_cues)])

\* C25: whenever an event is classified while the regime is Boosted, the
\* event lies more than the (finite) quiet gap after the last emitted cue,
\* and no candidate has been emitted since the regime became Boosted: every
\* step that ends with the regime Boosted emits nothing, and the regime
\* becomes Boosted only in the check that precedes a classification.
C25_BoostedMeansQuiet ==
    /\ [](pc = "classify" /\ sensitivity_boost_active =>
              quiet_duration_for_boost # Inf /\ QuietGapPassed)
    /\ [][sensitivity_boost_active' => EmittedNow = {}]_vars
    /\ [][sensitivity_boost_active /\ sensitivity_boost_active' =>
              time_of_last_generated_cue_overall' = time_of_last_generated_cue_overall]_vars
    /\ [][~sensitivity_boost_active /\ sensitivity_boost_active' =>
              pc = "boost_check" /\ pc' = "classify"]_vars

\* An event that lies more than the quiet gap after an emitted cue is about
\* to be classified Boosted.
C25_Witness ==
    /\ pc = "classify"
    /\ sensitivity_boost_active
    /\ time_of_last_generated_cue_overall # NegInf
    /\ potential_cues # <<>>
    /\ event_idx >= 2

\* C26: with a finite quiet gap, the first event of a pass switches the
\* regime from Normal to Boosted before it is classified, whatever its time,
\* and is classified with the boosted thresholds.
C26_FirstEventBoosted ==
    /\ [](pc = "boost_check" /\ event_idx = 1 => ~sensitivity_boost_active)
    /\ [][pc = "boost_check" /\ event_idx = 1 /\ quiet_duration_for_boost # Inf =>
              sensitivity_boost_active' /\ pc' = "classify"]_vars
    /\ [](pc = "classify" /\ event_idx = 1 /\ quiet_duration_for_boost # Inf =>
              sensitivity_boost_active /\ current_thresholds = BoostThresholds)

\* A first event at time zero is about to be classified, Boosted, under
\* thresholds that differ from the normal ones.
C26_Witness ==
    /\ pc = "classify"
    /\ event_idx = 1
    /\ CurrentEvent.time = 0
    /\ quiet_duration_for_boost # Inf
    /\ sensitivity_boost_active
    /\ current_thresholds # NormalThresholds

\* The timestamp of the last kept cue among those of the given categories,
\* minus infinity when none was kept.
LastKept(categories) ==
    LET kept == {i \in FinalIdx : final_cues[i].firework \in categories}
    IN  IF kept = {} THEN NegInf
        ELSE final_cues[CHOOSE i \in kept : \A j \in kept : j <= i].timestamp

\* C27: a cue that passes the same-category limiter but is dropped by the
\* particle-class limiter updates neither the last-seen time of its category
\* nor the last particle time, so that each cue is measured against the last
\* kept cue of its category and the last kept particle cue.
C27_ParticleDropLeavesLastSeen ==
    /\ [][(pc = "limit" /\ PassesSameCategory(CurrentCue)
             /\ CurrentCue.firework \in ParticleClass /\ WithinParticleGap(CurrentCue)) =>
              /\ last_cue_times_by_type' = last_cue_times_by_type
              /\ last_particle_cue_time' = last_particle_cue_time
              /\ final_cues' = final_cues]_vars
    /\ [](pc \in {"limit", "done"} =>
              /\ \A fw \in FireworkValues : last_cue_times_by_type[fw] = LastKept({fw})
              /\ last_particle_cue_time = LastKept(ParticleClass))

\* The call has returned; a cue passed the same-category limiter and was
\* dropped by the particle limiter, and a later cue of its category, less
\* than the same-category cooldown after it, was kept.
C27_Witness ==
    /\ pc = "done"
    /\ dropped_particle_proximity >= 1
    /\ \E j, k \in DedupIdx :
          /\ j < k
          /\ deduplicated_cues[j].firework = deduplicated_cues[k].firework
          /\ \A i \in FinalIdx :
                /\ final_cues[i] # deduplicated_cues[j]
                /\ final_cues[i].firework = deduplicated_cues[j].firework =>
                      final_cues[i] = deduplicated_cues[k]
          /\ \E i \in FinalIdx : final_cues[i] = deduplicated_cues[k]
          /\ deduplicated_cues[k].timestamp - deduplicated_cues[j].timestamp
               < min_same_type_cooldown

\* The deduplicated candidate at position j has been looked at by the
\* limiter and is not in the final list.
Missing(j) ==
    /\ pc = "done" \/ j < cue_idx
    /\ \A i \in FinalIdx : final_cues[i] # deduplicated_cues[j]

\* A kept cue standing before position j justifies dropping the candidate
\* there: same category and less than the same-category cooldown before it,
\* or both particle-class and less than the particle cooldown before it.
Justifies(kept, j) ==
    LET cue == deduplicated_cues[j]
    IN  /\ PositionInDeduplicated(kept) < j
        /\ kept.timestamp <= cue.timestamp
        /\ \/ /\ kept.firework = cue.firework
              /\ cue.timestamp - kept.timestamp < min_same_type_cooldown
           \/ /\ cue.firework \in ParticleClass
              /\ kept.firework \in ParticleClass
              /\ cue.timestamp - kept.timestamp < min_any_particle_cooldown

\* C28: every deduplicated candidate missing from the final list has an
\* earlier kept cue that justifies the drop, either of its category and less
\* than the same-category cooldown before it or, for a particle-class
\* candidate, a kept particle-class cue less than the particle cooldown
\* before it; the first candidate in sorted order is always kept.
C28_EveryDropJustified ==
    pc \in {"limit", "done"} =>
        /\ \A j \in DedupIdx :
              Missing(j) => \E i \in FinalIdx : Justifies(final_cues[i], j)
        /\ (deduplicated_cues # <<>> /\ (pc = "done" \/ cue_idx > 1)) =>
              (final_cues # <<>> /\ final_cues[1] = deduplicated_cues[1])

\* The call has returned after dropping one candidate for its category and
\* another for the particle class, and keeping the first.
C28_Witness ==
    /\ pc = "done"
    /\ dropped_same_type >= 1
    /\ dropped_particle_proximity >= 1
    /\ final_cues # <<>>
    /\ Len(final_cues) < Len(deduplicated_cues)

\* The percentile values of a profile do not decrease as the rank rises.
NonDecreasingInRank(profile) ==
    \A a, b \in PKeys : RankOfKey[a] <= RankOfKey[b] => profile[a] <= profile[b]

\* The hop indices (from 0) at which an event of either kind is in range.
FramesInRange ==
    {f \in 0 .. Len(rms_frames) - 1 : f < Len(sc_frames) /\ f < Len(flux_frames)}

\* C29: under each shipped profile, with feature profiles whose percentile
\* values are non-decreasing in rank, an in-range event that emits a
\* candidate under the normal thresholds emits one under the boosted
\* thresholds too, as an onset and as a beat.
C29_BoostAtLeastAsPermissive ==
    (/\ pc # "start"
     /\ NonDecreasingInRank(rms_profile)
     /\ NonDecreasingInRank(sc_profile)
     /\ NonDecreasingInRank(flux_profile)) =>
        \A f \in FramesInRange :
            /\ OnsetTypes(rms_frames[f + 1], sc_frames[f + 1], flux_frames[f + 1],
                          NormalThresholds, allow_kick_with_others) # <<>>
                 => OnsetTypes(rms_frames[f + 1], sc_frames[f + 1], flux_frames[f + 1],
                               BoostThresholds, allow_kick_with_others) # <<>>
            /\ BeatTypes(rms_frames[f + 1], sc_frames[f + 1], NormalThresholds) # <<>>
                 => BeatTypes(rms_frames[f + 1], sc_frames[f + 1], BoostThresholds) # <<>>

\* An in-range event is about to be classified under normal thresholds that
\* let it emit, the boosted thresholds being other values, and another hop
\* of the same arrays would emit as an onset under the boosted thresholds only.
C29_Witness ==
    /\ pc = "classify"
    /\ ~sensitivity_boost_active
    /\ ~EventOutOfRange
    /\ NonDecreasingInRank(rms_profile)
    /\ BoostThresholds # NormalThresholds
    /\ OnsetTypes(CurrentRms, CurrentSc, CurrentFlux, NormalThresholds,
                  allow_kick_with_others) # <<>>
    /\ \E f \in FramesInRange :
          /\ OnsetTypes(rms_frames[f + 1], sc_frames[f + 1], flux_frames[f + 1],
                        NormalThresholds, allow_kick_with_others) = <<>>
          /\ OnsetTypes(rms_frames[f + 1], sc_frames[f + 1], flux_frames[f + 1],
                        BoostThresholds, allow_kick_with_others) # <<>>

\* ------------------------------------------------------- the visualizer
\* HanabiGUI of hanabi_gui.py: the playback fields, the handlers of the
\* buttons and the animation frame.  Times are in milliseconds, as cue
\* timestamps are; the age of a firework is counted in frames of dt.

\* The files json.load may read: lists of cue dictionaries as generate_cues
\* writes them, and one that is not in time order.
CueAtZero == [id |-> <<0, 1>>, timestamp |-> 0, firework |-> "kick_boom",
              source |-> "onset_kick"]

CueAtTwo == [id |-> <<0, 2>>, timestamp |-> 2, firework |-> "mid_burst",
             source |-> "beat"]

CueFiles == {<<CueAtZero>>, <<CueAtZero, CueAtTwo>>, <<CueAtTwo, CueAtZero>>}

\* dt = 1/60: the frames in a second.
FramesPerSecond == 60

\* FireworkParticle.get_max_age, in frames.
get_max_age(firework_type) ==
    IF firework_type = "sparkle" THEN 2 * FramesPerSecond
    ELSE IF firework_type = "burst" THEN (3 * FramesPerSecond) \div 2
    ELSE FramesPerSecond

\* FireworkParticle.__init__
FireworkParticle(firework_type) ==
    [firework_type |-> firework_type, age |-> 0, max_age |-> get_max_age(firework_type)]

\* FireworkParticle.update(dt): the particle after the call, and the truth
\* value of what the call returns (it has no return statement: None).
update(fw) == [fw EXCEPT !.age = @ + 1]

update_returns_true(fw) == FALSE

\* FireworkParticle.draw(canvas): whether the particles are drawn (nothing is
\* once the age has reached max_age).
draw(fw) == fw.age < fw.max_age

\* trigger_firework for each of the cues in turn: nothing is created while
\* the canvas is not laid out (width or height at most 1).
trigger_firework(active, fired, ready) ==
    IF ready
    THEN active \o [i \in 1 .. Len(fired) |-> FireworkParticle(fired[i].firework)]
    ELSE active

\* The while loop of animate: the index it stops at, from index i.
RECURSIVE IndexAfterTriggers(_, _, _)
IndexAfterTriggers(list, i, elapsed_time) ==
    IF i < Len(list) /\ list[i + 1].timestamp <= elapsed_time
    THEN IndexAfterTriggers(list, i + 1, elapsed_time)
    ELSE i

\* The state of a visualizer whose engine variables are not in use.
GuiInit ==
    /\ GuiConstructed
    /\ rms_frames = <<>> /\ sc_frames = <<>> /\ flux_frames = <<>>
    /\ onset_times = <<>> /\ beat_times = <<>>
    /\ profile_name = "balanced"
    /\ allow_kick_with_others = FALSE
    /\ quiet_duration_for_boost = Inf
    /\ pc = "gui"
    /\ rms_profile = <<>> /\ sc_profile = <<>> /\ flux_profile = <<>>
    /\ combined_events = <<>>
    /\ event_idx = 1
    /\ time_of_last_generated_cue_overall = NegInf
    /\ sensitivity_boost_active = FALSE
    /\ current_thresholds = Unset
    /\ generated_types_this_event = <<>>
    /\ potential_cues = <<>>
    /\ deduplicated_cues = <<>>
    /\ cue_idx = 1
    /\ min_same_type_cooldown = 0
    /\ min_any_particle_cooldown = 0
    /\ last_cue_times_by_type = [fw \in FireworkValues |-> NegInf]
    /\ last_particle_cue_time = NegInf
    /\ dropped_same_type = 0
    /\ dropped_particle_proximity = 0
    /\ final_cues = <<>>
    /\ uuid_entropy = 0
    /\ run = 1
    /\ first_run_cues = <<>>

engineVars == <<inputVars, pc, profileVars, scanVars, limitVars, callVars>>

\* time.time() moves on.
ClockTick ==
    /\ clock < MaxClock
    /\ clock' = clock + 1
    /\ UNCHANGED <<engineVars, audio_file, cues, current_cue_index, is_playing,
                   start_time, fireworks, triggered, canvas_ready, canvas_items>>

\* Lines 408-414: the size winfo_width and winfo_height report changes, when
\* the window is laid out or resized.
canvas_configure ==
    /\ \E ready \in BOOLEAN : canvas_ready' = ready
    /\ UNCHANGED <<engineVars, audio_file, cues, current_cue_index, is_playing,
                   start_time, fireworks, triggered, clock, canvas_items>>

\* Lines 247-257: an audio file is chosen.
browse_audio_file ==
    /\ audio_file' = TRUE
    /\ UNCHANGED <<engineVars, cues, current_cue_index, is_playing, start_time,
                   fireworks, triggered, clock, canvas_ready, canvas_items>>

\* Lines 313-324: the list is replaced and the index goes back to 0, whether
\* or not the visualizer is playing.
load_cue_file(file) ==
    /\ cues' = file
    /\ current_cue_index' = 0

\* Lines 259-268: a cue file is chosen.
browse_cue_file ==
    /\ \E file \in CueFiles : load_cue_file(file)
    /\ UNCHANGED <<engineVars, audio_file, is_playing, start_time, fireworks,
                   triggered, clock, canvas_ready, canvas_items>>

\* Lines 270-311: the newest cue file is loaded, and the audio file of the
\* same name is taken when there is one.
auto_load_files ==
    /\ \E file \in CueFiles : load_cue_file(file)
    /\ \E audio_file_found \in BOOLEAN :
          audio_file' = IF audio_file_found THEN TRUE ELSE audio_file
    /\ UNCHANGED <<engineVars, is_playing, start_time, fireworks, triggered, clock,
                   canvas_ready, canvas_items>>

\* Lines 342-352: the music is loaded and played from its beginning.
start_playback ==
    /\ is_playing' = TRUE
    /\ start_time' = clock
    /\ current_cue_index' = 0
    /\ triggered' = <<>>
    /\ UNCHANGED fireworks

\* Lines 354-358.
pause_playback ==
    /\ is_playing' = FALSE
    /\ UNCHANGED <<start_time, current_cue_index, triggered, fireworks>>

\* Lines 332-340: the Play/Pause/Resume button.
toggle_playback ==
    /\ audio_file /\ cues # <<>>
    /\ IF is_playing THEN pause_playback ELSE start_playback
    /\ UNCHANGED <<engineVars, audio_file, cues, clock, canvas_ready, canvas_items>>

\* Lines 360-370: the Stop button.
stop_playback ==
    /\ is_playing' = FALSE
    /\ start_time' = NoStartTime
    /\ current_cue_index' = 0
    /\ fireworks' = <<>>
    /\ triggered' = <<>>
    /\ canvas_items' = <<>>
    /\ UNCHANGED <<engineVars, audio_file, cues, clock, canvas_ready>>

\* Lines 372-406: one animation frame.  Every cue from the index on whose
\* timestamp the elapsed time has reached is triggered, then the fireworks
\* for which update returns a true value are kept, and those of them that
\* draw finds younger than max_age are drawn on the cleared canvas.  The
\* record of triggered cues is kept to MaxTriggered entries.
animate ==
    /\ LET playing == is_playing /\ start_time # NoStartTime
           elapsed_time == clock - start_time
           index == IF playing
                    THEN IndexAfterTriggers(cues, current_cue_index, elapsed_time)
                    ELSE current_cue_index
           fired == SubSeq(cues, current_cue_index + 1, index)
       IN  /\ Len(triggered) + Len(fired) <= MaxTriggered
           /\ current_cue_index' = index
           /\ triggered' = triggered \o fired
           /\ fireworks' =
                 SelectSeq([i \in 1 .. Len(trigger_firework(fireworks, fired, canvas_ready)) |->
                                update(trigger_firework(fireworks, fired, canvas_ready)[i])],
                           update_returns_true)
           /\ canvas_items' = SelectSeq(fireworks', draw)
    /\ UNCHANGED <<engineVars, audio_file, cues, is_playing, start_time, clock,
                   canvas_ready>>

GuiNext ==
    \/ ClockTick
    \/ canvas_configure
    \/ browse_audio_file
    \/ browse_cue_file
    \/ auto_load_files
    \/ toggle_playback
    \/ stop_playback
    \/ animate

SpecGui == GuiInit /\ [][GuiNext]_vars

\* A step that starts playback, and one that stops it.
StartsPlayback == ~is_playing /\ is_playing'

StopsPlayback == start_time # NoStartTime /\ start_time' = NoStartTime

\* The cues a step passes to trigger_firework.
TriggeredNow ==
    IF StartsPlayback \/ StopsPlayback THEN <<>>
    ELSE SubSeq(triggered', Len(triggered) + 1, Len(triggered'))

\* C30: between one playback start and the next stop or start, cues are
\* triggered in list order, each at most once, and none before the elapsed
\* playback time has reached its timestamp; current_cue_index only increases
\* in that interval, and no cue is triggered while is_playing is false.
C30_TriggeredInOrderOnce ==
    /\ [][~(StartsPlayback \/ StopsPlayback) =>
              current_cue_index' >= current_cue_index]_vars
    /\ [][TriggeredNow # <<>> =>
              /\ is_playing
              /\ TriggeredNow = SubSeq(cues, current_cue_index + 1, current_cue_index')
              /\ \A i \in 1 .. Len(TriggeredNow) :
                    TriggeredNow[i].timestamp <= clock - start_time]_vars
    /\ [](\A i, j \in 1 .. Len(triggered) : i < j => triggered[i].id # triggered[j].id)
    /\ [](start_time # NoStartTime =>
              \E m \in 0 .. Len(cues) : triggered = SubSeq(cues, 1, m))

\* The fireworks a step creates: one for each cue it passes to
\* trigger_firework while the canvas is laid out.
CreatedNow ==
    IF canvas_ready
    THEN [i \in 1 .. Len(TriggeredNow) |-> FireworkParticle(TriggeredNow[i].firework)]
    ELSE <<>>

\* The firework is in the list, one frame older.
Among(list, fw) == \E j \in 1 .. Len(list) : list[j] = [fw EXCEPT !.age = @ + 1]

\* C31: a firework created by trigger_firework stays in the list of active
\* fireworks and is drawn on each animation frame until its age reaches its
\* max_age, and leaves the list only once its age has reached max_age.
C31_FireworkLivesToMaxAge ==
    /\ [][\A i \in 1 .. Len(CreatedNow) :
              CreatedNow[i].age + 1 < CreatedNow[i].max_age =>
                  Among(fireworks', CreatedNow[i]) /\ Among(canvas_items', CreatedNow[i])]_vars
    /\ [][(fireworks' # fireworks /\ ~StopsPlayback) =>
              \A i \in 1 .. Len(fireworks) :
                  IF fireworks[i].age + 1 < fireworks[i].max_age
                  THEN Among(fireworks', fireworks[i]) /\ Among(canvas_items', fireworks[i])
                  ELSE TRUE]_vars
    /\ [](\A i \in 1 .. Len(fireworks) : fireworks[i].age < fireworks[i].max_age)
====
